---- MODULE Spec2Model ----
(***************************************************************************)
(* A model of the ATLAS node tree, the tokenizer and the per-version       *)
(* tokenization orchestrator of scaife-viewer-backend.                     *)
(*                                                                         *)
(* Strings are sequences of one-character strings, so that splitting,      *)
(* stripping, substring search and formatting are computed as the code     *)
(* computes them.                                                          *)
(***************************************************************************)
EXTENDS Integers, Sequences, FiniteSets, TLC

VARIABLES
    nodes,      \* the Node table: a set of rows
    tokens,     \* the Token table: rows in insertion (pk) order
    procs,      \* running / finished tokenize_text_parts invocations
    orch,       \* the frame of tokenize_all_text_parts
    call,       \* the most recent completed read-only call and its result
    ncalls,     \* number of top-level calls started so far
    context,    \* the attributes set on the request (GraphQL) context
    alignment,  \* a TextAlignment: its sorted versions and its records
    annotation, \* a text / metrical / audio annotation row
    manifest    \* the corpus manifest file: repository entries in file order

vars == <<nodes, tokens, procs, orch, call, ncalls, context, alignment,
          annotation, manifest>>

\* ------------------------------------------------------------------------
\* Bounds of the model
\* ------------------------------------------------------------------------
MaxContentLen == 4      \* longest enumerated text_content (characters)
MaxStartIdx == 1        \* largest counters["token_idx"] handed to Token.tokenize
MaxCalls == 2           \* top-level calls made by the caller
MaxVersions == 2        \* versions under the work in the enumerated trees
MaxBooks == 2           \* rank-1 citation parts per version
MaxLines == 2           \* rank-2 citation parts per rank-1 part
MaxRefs == 2            \* URNs listed in an annotation's data.references
MaxRefLen == 3          \* characters of an enumerated reference suffix
LastStep == 9           \* largest value one path step can encode
MaxRepos == 2           \* repositories listed in the manifest

\* ------------------------------------------------------------------------
\* Python values
\* ------------------------------------------------------------------------
None == <<"None">>      \* a NULL string column / Python None
NoneInt == -1           \* a NULL integer column

Whitespace == {" ", "\n"}
WordChars == {"a", "b", "A", "B", "0", "1", "2", "3", "4", "5", "6", "7",
              "8", "9", "_"}
ContentAlphabet == {"a", "b", ",", " "}

Digits == <<"0", "1", "2", "3", "4", "5", "6", "7", "8", "9">>

\* str(n) for a non-negative integer
RECURSIVE Str(_)
Str(n) ==
    IF n < 10 THEN <<Digits[n + 1]>>
    ELSE Str(n \div 10) \o <<Digits[(n % 10) + 1]>>

\* str.lower() on one character
LowerChar(c) ==
    CASE c = "A" -> "a"
      [] c = "B" -> "b"
      [] OTHER -> c

Lower(s) == [i \in 1..Len(s) |-> LowerChar(s[i])]

\* p is a proper prefix of q
IsStrictPrefix(p, q) ==
    Len(p) < Len(q) /\ \A i \in 1..Len(p) : p[i] = q[i]

\* s.startswith(p)
StartsWith(s, p) == Len(p) <= Len(s) /\ SubSeq(s, 1, Len(p)) = p

\* p in s
Contains(s, p) ==
    \E i \in 1..(Len(s) - Len(p) + 1) : SubSeq(s, i, i + Len(p) - 1) = p

\* the SQL of Django's icontains lookup: case-insensitive substring
IContains(s, p) == Contains(Lower(s), Lower(p))

\* str.split() without arguments: runs of whitespace separate the pieces
RECURSIVE SplitFrom(_, _)
SplitFrom(s, cur) ==
    IF s = <<>> THEN (IF cur = <<>> THEN <<>> ELSE <<cur>>)
    ELSE IF Head(s) \in Whitespace
         THEN (IF cur = <<>> THEN SplitFrom(Tail(s), <<>>)
               ELSE <<cur>> \o SplitFrom(Tail(s), <<>>))
         ELSE SplitFrom(Tail(s), Append(cur, Head(s)))

Split(s) == SplitFrom(s, <<>>)

\* str.split(sep): every separator cuts, empty pieces are kept
RECURSIVE SplitSepFrom(_, _, _)
SplitSepFrom(s, sep, cur) ==
    IF s = <<>> THEN <<cur>>
    ELSE IF Head(s) = sep
         THEN <<cur>> \o SplitSepFrom(Tail(s), sep, <<>>)
         ELSE SplitSepFrom(Tail(s), sep, Append(cur, Head(s)))

SplitSep(s, sep) == SplitSepFrom(s, sep, <<>>)

\* ------------------------------------------------------------------------
\* Token.tokenize
\* ------------------------------------------------------------------------
IsWordChar(c) == c \in WordChars

\* re.sub(r"[^\w]", "", value)
get_word_value(value) == SelectSeq(value, IsWordChar)

\* defaultdict(int): a finite map, absent keys read as 0
DictGet(d, k) == IF k \in DOMAIN d THEN d[k] ELSE 0

DictInc(d, k) ==
    [x \in (DOMAIN d) \cup {k} |-> IF x = k THEN DictGet(d, k) + 1 ELSE d[x]]

EmptyDict == [x \in {} |-> 0]

\* variant: the inner range starts one too far, so w[i : i + 1] is skipped
RECURSIVE CountSubstrings_skipsingle(_, _, _, _)
CountSubstrings_skipsingle(idx, w, i, j) ==
    IF i > Len(w) THEN idx
    ELSE IF j > Len(w) THEN CountSubstrings_skipsingle(idx, w, i + 1, i + 1)
    ELSE IF j = i THEN CountSubstrings_skipsingle(idx, w, i, j + 1)
    ELSE CountSubstrings_skipsingle(DictInc(idx, SubSeq(w, i, j)), w, i, j + 1)

\* variant: only the whole word is counted
CountSubstrings_wholeword(idx, w, i, j) ==
    IF Len(w) = 0 THEN idx ELSE DictInc(idx, w)

\* for wk in (w[i : j + 1] for i in range(wl) for j in range(i, wl)):
\*     idx[wk] += 1
RECURSIVE CountSubstrings(_, _, _, _)
CountSubstrings(idx, w, i, j) ==
    IF i > Len(w) THEN idx
    ELSE IF j > Len(w) THEN CountSubstrings(idx, w, i + 1, i + 1)
    ELSE CountSubstrings(DictInc(idx, SubSeq(w, i, j)), w, i, j + 1)

\* variant: position is the 0-based enumerate index
RECURSIVE TokenizeLoop_zerobased(_, _, _, _, _, _)
TokenizeLoop_zerobased(text_part_node, pieces, pos, idx, token_idx, to_create) ==
    IF pos >= Len(pieces)
    THEN [to_create |-> to_create, token_idx |-> token_idx]
    ELSE LET piece == pieces[pos + 1]
             w == get_word_value(piece)
             idx2 == CountSubstrings(idx, w, 1, 1)
             subref_idx == DictGet(idx2, w)
             subref_value == w \o <<"[">> \o Str(subref_idx) \o <<"]">>
             position == pos
             tok == [text_part |-> text_part_node.pk,
                     value |-> piece,
                     word_value |-> w,
                     position |-> position,
                     ve_ref |-> text_part_node.ref \o <<".", "t">> \o Str(position),
                     idx |-> token_idx,
                     subref_value |-> subref_value]
         IN TokenizeLoop_zerobased(text_part_node, pieces, pos + 1, idx2,
                                   token_idx + 1, Append(to_create, tok))

\* the body of the loop over enumerate(pieces); pos is 0-based as in the code
RECURSIVE TokenizeLoop(_, _, _, _, _, _)
TokenizeLoop(text_part_node, pieces, pos, idx, token_idx, to_create) ==
    IF pos >= Len(pieces)
    THEN [to_create |-> to_create, token_idx |-> token_idx]
    ELSE LET piece == pieces[pos + 1]
             w == get_word_value(piece)
             idx2 == CountSubstrings(idx, w, 1, 1)
             subref_idx == DictGet(idx2, w)
             subref_value == w \o <<"[">> \o Str(subref_idx) \o <<"]">>
             position == pos + 1
             tok == [text_part |-> text_part_node.pk,
                     value |-> piece,
                     word_value |-> w,
                     position |-> position,
                     ve_ref |-> text_part_node.ref \o <<".", "t">> \o Str(position),
                     idx |-> token_idx,
                     subref_value |-> subref_value]
         IN TokenizeLoop(text_part_node, pieces, pos + 1, idx2,
                         token_idx + 1, Append(to_create, tok))

\* Token.tokenize(text_part_node, counters): the tokens to create and the
\* updated counters["token_idx"]; raised when text_content is None
\* (None has no split()).
tokenize(text_part_node, token_idx) ==
    IF text_part_node.text_content = None
    THEN [raised |-> TRUE, to_create |-> <<>>, token_idx |-> token_idx]
    ELSE LET r == TokenizeLoop(text_part_node,
                               Split(text_part_node.text_content),
                               0, EmptyDict, token_idx, <<>>)
         IN [raised |-> FALSE, to_create |-> r.to_create,
             token_idx |-> r.token_idx]

\* ------------------------------------------------------------------------
\* The node tree (treebeard materialized paths).  A path is the sequence of
\* its fixed-width steps; the string order of the stored paths is the
\* lexicographic order of the step sequences.
\* ------------------------------------------------------------------------
RECURSIVE PathLess(_, _)
PathLess(p, q) ==
    IF q = <<>> THEN FALSE
    ELSE IF p = <<>> THEN TRUE
    ELSE IF Head(p) # Head(q) THEN Head(p) < Head(q)
    ELSE PathLess(Tail(p), Tail(q))

\* QuerySet.order_by("path") over rows with unique paths
RECURSIVE OrderByPath(_)
OrderByPath(S) ==
    IF S = {} THEN <<>>
    ELSE LET first == CHOOSE n \in S : \A m \in S \ {n} : PathLess(n.path, m.path)
         IN <<first>> \o OrderByPath(S \ {first})

SeqToSet(s) == {s[i] : i \in 1..Len(s)}

\* Node.get_descendants: path__startswith, depth__gte, order_by("path"),
\* exclude(pk=parent.pk)
get_descendants_leafcheck(self) ==
    IF self.numchild = 0 THEN <<>>
    ELSE OrderByPath({n \in nodes : /\ StartsWith(n.path, self.path)
                                    /\ n.depth >= self.depth
                                    /\ n.pk # self.pk})

get_descendants(self) ==
    OrderByPath({n \in nodes : /\ StartsWith(n.path, self.path)
                               /\ n.depth >= self.depth
                               /\ n.pk # self.pk})

\* QuerySet.filter(rank=...) / filter(kind=...) keep the order
FilterRank(qs, rank) == SelectSeq(qs, LAMBDA n : n.rank = rank)
FilterKind(qs, kind) == SelectSeq(qs, LAMBDA n : n.kind = kind)

\* "not self.rank": None and 0 are both falsy
Falsy(rank) == rank = NoneInt \/ rank = 0

\* Node.get_refpart_siblings
get_refpart_siblings_sameparent(self, version) ==
    IF Falsy(self.rank) THEN <<>>
    ELSE SelectSeq(get_descendants(version),
                   LAMBDA n : /\ n.rank = self.rank
                              /\ SubSeq(n.path, 1, Len(n.path) - 1)
                                   = SubSeq(self.path, 1, Len(self.path) - 1))

get_refpart_siblings(self, version) ==
    IF Falsy(self.rank) THEN <<>>
    ELSE FilterRank(get_descendants(version), self.rank)

PathLeq(p, q) == p = q \/ PathLess(p, q)

\* MP_Node._get_children_path_interval(path): from the first to the last
\* path a child can have
ChildrenPathInterval(path) == <<Append(path, 0), Append(path, LastStep)>>

\* variant: the depth filter is missing
get_children_nodepth(self) ==
    LET interval == ChildrenPathInterval(self.path)
    IN OrderByPath({n \in nodes : /\ PathLeq(interval[1], n.path)
                                  /\ PathLeq(n.path, interval[2])})

\* Node.get_children: depth=self.depth + 1, path__range, order_by("path")
get_children(self) ==
    LET interval == ChildrenPathInterval(self.path)
    IN OrderByPath({n \in nodes : /\ n.depth = self.depth + 1
                                  /\ PathLeq(interval[1], n.path)
                                  /\ PathLeq(n.path, interval[2])})

\* ------------------------------------------------------------------------
\* Trees as bulk ingestion leaves them: nid / textgroup / work / version,
\* then the citation parts of the version's citation scheme.  The URN of a
\* citation part is the version URN followed by its ref.  numchild is either
\* left at 0 (bulk ingestion does not populate it) or holds the child count.
\* ------------------------------------------------------------------------
CitationScheme == <<"book", "line">>

NoMetadata == [x \in {} |-> <<>>]
VersionMetadata == [citation_scheme |-> CitationScheme]

BookRef(b) == Str(b)
LineRef(b, l) == Str(b) \o <<".">> \o Str(l)

\* primary keys: one distinct integer per row
RECURSIVE PathNum(_)
PathNum(path) ==
    IF path = <<>> THEN 0
    ELSE 10 * PathNum(SubSeq(path, 1, Len(path) - 1)) + path[Len(path)]

Row(path, kind, urn, ref, rank, text_content, metadata, nchild, populated) ==
    [pk |-> PathNum(path),
     path |-> path,
     depth |-> Len(path),
     numchild |-> IF populated THEN nchild ELSE 0,
     kind |-> kind,
     urn |-> urn,
     ref |-> ref,
     rank |-> rank,
     text_content |-> text_content,
     metadata |-> metadata]

\* shape[v][b] is the number of lines of book b of version v
TreeOf(shape, urnOf, metaOf, contentOf, populated) ==
    LET nv == Len(shape)
    IN {Row(<<1>>, "nid", <<"n", ":">>, None, NoneInt, None, NoMetadata,
            1, populated),
        Row(<<1, 1>>, "textgroup", <<"n", ":", "g">>, None, NoneInt, None,
            NoMetadata, 1, populated),
        Row(<<1, 1, 1>>, "work", <<"n", ":", "g", ".", "w">>, None, NoneInt,
            None, NoMetadata, nv, populated)}
       \cup
       {Row(<<1, 1, 1, v>>, "version", urnOf[v], None, NoneInt, None,
            metaOf[v], Len(shape[v]), populated) : v \in 1..nv}
       \cup
       UNION {{Row(<<1, 1, 1, v, b>>, "book", urnOf[v] \o BookRef(b),
                   BookRef(b), 1, None, NoMetadata, shape[v][b], populated)
                 : b \in 1..Len(shape[v])} : v \in 1..nv}
       \cup
       UNION {UNION {{Row(<<1, 1, 1, v, b, l>>, "line",
                          urnOf[v] \o LineRef(b, l), LineRef(b, l), 2,
                          contentOf[<<v, b, l>>], NoMetadata, 0, populated)
                        : l \in 1..shape[v][b]}
                      : b \in 1..Len(shape[v])} : v \in 1..nv}

\* The citation tree of one version (at any position under the work) is
\* enumerated in full; its sibling versions share one of a few small shapes.
BookSeqs == UNION {[1..nb -> 0..MaxLines] : nb \in 0..MaxBooks}
OtherBookSeqs == {<<>>, <<1>>, <<0, 1>>}
Shapes ==
    UNION {{[v \in 1..nv |-> IF v = p THEN s ELSE o] :
               p \in 1..nv, s \in BookSeqs, o \in OtherBookSeqs}
             : nv \in 1..MaxVersions}

DefaultUrn(v) == <<"n", ":", "g", ".", "w", ".", "v">> \o Str(v) \o <<":">>

NodeByPk(pk) == CHOOSE n \in nodes : n.pk = pk
Pks(qs) == [i \in 1..Len(qs) |-> qs[i].pk]

NoCall == [op |-> "none"]
NoProcs == <<>>
NoOrch == [pc |-> "idle", reset |-> FALSE, exceptions |-> FALSE,
          consumed |-> {}, error |-> "none"]
NoContext == [x \in {} |-> <<>>]
NoManifest == <<>>
NoAlignment == [versions |-> <<>>, records |-> <<>>]
NoAnnotation == [kind |-> "none", data |-> [x \in {} |-> <<>>],
                 text_parts |-> <<>>]

\* ------------------------------------------------------------------------
\* Read-only tree queries on every enumerated tree
\* ------------------------------------------------------------------------
InitTree ==
    /\ \E shape \in Shapes, populated \in BOOLEAN :
          nodes = TreeOf(shape,
                         [v \in 1..Len(shape) |-> DefaultUrn(v)],
                         [v \in 1..Len(shape) |-> VersionMetadata],
                         [t \in (1..MaxVersions) \X (1..MaxBooks) \X (1..MaxLines)
                            |-> <<"a">>],
                         populated)
    /\ tokens = <<>>
    /\ procs = NoProcs
    /\ orch = NoOrch
    /\ call = NoCall
    /\ ncalls = 0
    /\ context = NoContext
    /\ alignment = NoAlignment
    /\ annotation = NoAnnotation
    /\ manifest = NoManifest

CallGetDescendants ==
    /\ call = NoCall
    /\ \E n \in nodes :
          call' = [op |-> "get_descendants", self |-> n.pk,
                   result |-> Pks(get_descendants(n))]
    /\ UNCHANGED <<nodes, tokens, procs, orch, ncalls,
                 context, alignment, annotation, manifest>>

CallGetRefpartSiblings ==
    /\ call = NoCall
    /\ \E n \in nodes, v \in nodes :
          /\ v.kind \in {"version", "exemplar"}
          /\ call' = [op |-> "get_refpart_siblings", self |-> n.pk,
                      version |-> v.pk,
                      result |-> Pks(get_refpart_siblings(n, v))]
    /\ UNCHANGED <<nodes, tokens, procs, orch, ncalls,
                 context, alignment, annotation, manifest>>

CallGetChildren ==
    /\ call = NoCall
    /\ \E n \in nodes :
          call' = [op |-> "get_children", self |-> n.pk,
                   result |-> Pks(get_children(n))]
    /\ UNCHANGED <<nodes, tokens, procs, orch, ncalls,
                 context, alignment, annotation, manifest>>

\* Node.lowest_citable_part
lowest_citable_part(self) ==
    IF Falsy(self.rank) THEN [error |-> "none", value |-> None]
    ELSE IF self.ref = None THEN [error |-> "AttributeError"]
    ELSE LET parts == SplitSep(self.ref, ".")
         IN [error |-> "none", value |-> parts[Len(parts)]]

\* self.<name> for the names read by lsb: a name the class does not define
\* raises AttributeError
GetProperty(self, name) ==
    IF name = "lowest_citable_part" THEN lowest_citable_part(self)
    ELSE [error |-> "AttributeError"]

\* Node.lsb: return self.lowest_citabale_part
lsb(self) == GetProperty(self, "lowest_citabale_part")

CallLsb ==
    /\ call = NoCall
    /\ \E n \in nodes :
          call' = [op |-> "lsb", self |-> n.pk, result |-> lsb(n)]
    /\ UNCHANGED <<nodes, tokens, procs, orch, ncalls,
                 context, alignment, annotation, manifest>>

CallLowestCitablePart ==
    /\ call = NoCall
    /\ \E n \in nodes :
          call' = [op |-> "lowest_citable_part", self |-> n.pk,
                   result |-> lowest_citable_part(n)]
    /\ UNCHANGED <<nodes, tokens, procs, orch, ncalls,
                 context, alignment, annotation, manifest>>

NextTree ==
    \/ CallGetDescendants
    \/ CallGetRefpartSiblings
    \/ CallGetChildren
    \/ CallLsb
    \/ CallLowestCitablePart

SpecTree == InitTree /\ [][NextTree]_vars

\* ------------------------------------------------------------------------
\* Node.dump_tree.  The nested output is an object graph: every emitted
\* entry is the dict created for one row, named here by the row's path;
\* "tree" lists the top-level entries and an entry's "children" key, when it
\* has one, lists its child entries.
\* ------------------------------------------------------------------------
CTS_URN_NODES == <<"textgroup", "work", "version", "exemplar">>
CTS_URN_DEPTHS == [textgroup |-> 2, work |-> 3, version |-> 4, exemplar |-> 5]

RootNone == 0                         \* root=None
UpToNone == [given |-> FALSE]         \* up_to=None
UpTo(value) == [given |-> TRUE, value |-> value]

\* truth value of the up_to argument: None and "" are falsy
Truthy(up_to) == up_to.given /\ up_to.value # ""

\* variant: the test is "up_to is not None and ..."
InvalidUpTo_notnone(up_to) ==
    up_to.given /\ up_to.value \notin SeqToSet(CTS_URN_NODES)

\* if up_to and up_to not in constants.CTS_URN_NODES: raise ValueError
InvalidUpTo(up_to) ==
    Truthy(up_to) /\ up_to.value \notin SeqToSet(CTS_URN_NODES)

\* variant: rows at the boundary depth are excluded too
ExcludeDeeper_gte(qs, depth) == SelectSeq(qs, LAMBDA n : ~(n.depth >= depth))

\* qs.exclude(depth__gt=depth)
ExcludeDeeper(qs, depth) == SelectSeq(qs, LAMBDA n : ~(n.depth > depth))

\* lines 359-367: the rows to serialize
DumpQuerySet(root, up_to) ==
    LET all == OrderByPath(nodes)
        sub == IF root # RootNone
               THEN OrderByPath({n \in nodes :
                                    StartsWith(n.path, NodeByPk(root).path)})
               ELSE all
    IN IF Truthy(up_to) THEN ExcludeDeeper(sub, CTS_URN_DEPTHS[up_to.value])
       ELSE sub

\* graphene's camelize on the keys the rows carry
Fields(obj, to_camel) ==
    LET metadata ==
            IF to_camel /\ "citation_scheme" \in DOMAIN obj.metadata
            THEN [citationScheme |-> obj.metadata.citation_scheme]
            ELSE obj.metadata
    IN IF to_camel
       THEN [kind |-> obj.kind, urn |-> obj.urn, ref |-> obj.ref,
             rank |-> obj.rank, textContent |-> obj.text_content,
             metadata |-> metadata]
       ELSE [kind |-> obj.kind, urn |-> obj.urn, ref |-> obj.ref,
             rank |-> obj.rank, text_content |-> obj.text_content,
             metadata |-> metadata]

\* variant: every entry starts with an empty children list
NewObj_withchildren(fields) == [data |-> fields, children |-> <<>>]

\* newobj = {"data": fields}
NewObj(fields) == [data |-> fields]

\* variant: only depth decides, also when a root is given
IsTopLevel_depthonly(root, path) == Len(path) = 1

\* (not root and depth == 1) or (root and len(path) == len(root.path))
IsTopLevel(root, path) ==
    \/ (root = RootNone /\ Len(path) = 1)
    \/ (root # RootNone /\ Len(path) = Len(NodeByPk(root).path))

\* cls._get_basepath(path, depth - 1)
BasePath(path, depth) == SubSeq(path, 1, depth)

\* parentobj["children"].append(newobj), creating the list when absent
AppendChild(parentobj, child) ==
    IF "children" \notin DOMAIN parentobj
    THEN [k \in (DOMAIN parentobj) \cup {"children"} |->
             IF k = "children" THEN <<child>> ELSE parentobj[k]]
    ELSE [parentobj EXCEPT !.children = Append(@, child)]

\* lines 369-395: one pass over the serialized rows
RECURSIVE DumpLoop(_, _, _, _, _, _)
DumpLoop(qs, i, root, to_camel, tree, index) ==
    IF i > Len(qs) THEN [error |-> "none", tree |-> tree, index |-> index]
    ELSE LET path == qs[i].path
             depth == Len(path)
             newobj == NewObj(Fields(qs[i], to_camel))
         IN IF IsTopLevel(root, path)
            THEN DumpLoop(qs, i + 1, root, to_camel, Append(tree, path),
                          [p \in (DOMAIN index) \cup {path} |->
                              IF p = path THEN newobj ELSE index[p]])
            ELSE LET parentpath == BasePath(path, depth - 1)
                 IN IF parentpath \notin DOMAIN index
                    THEN [error |-> "KeyError", tree |-> <<>>,
                          index |-> [p \in {} |-> <<>>]]
                    ELSE DumpLoop(qs, i + 1, root, to_camel, tree,
                                  [p \in (DOMAIN index) \cup {path} |->
                                      IF p = path THEN newobj
                                      ELSE IF p = parentpath
                                      THEN AppendChild(index[p], path)
                                      ELSE index[p]])

dump_tree(root, up_to, to_camel) ==
    IF InvalidUpTo(up_to)
    THEN [error |-> "ValueError", tree |-> <<>>, index |-> [p \in {} |-> <<>>]]
    ELSE DumpLoop(DumpQuerySet(root, up_to), 1, root, to_camel, <<>>,
                  [p \in {} |-> <<>>])

UpToValues ==
    {UpToNone, UpTo(""), UpTo("book")}
        \cup {UpTo(CTS_URN_NODES[i]) : i \in 1..Len(CTS_URN_NODES)}

\* (up_to, to_camel): camelCase keys, the default, with every up_to, and
\* snake_case keys with up_to omitted
DumpArguments == (UpToValues \X {TRUE}) \cup {<<UpToNone, FALSE>>}

InitDump ==
    /\ \E shape \in Shapes :
          nodes = TreeOf(shape,
                         [v \in 1..Len(shape) |-> DefaultUrn(v)],
                         [v \in 1..Len(shape) |-> VersionMetadata],
                         [t \in (1..MaxVersions) \X (1..MaxBooks) \X (1..MaxLines)
                            |-> <<"a">>],
                         FALSE)
    /\ tokens = <<>>
    /\ procs = NoProcs
    /\ orch = NoOrch
    /\ call = NoCall
    /\ ncalls = 0
    /\ context = NoContext
    /\ alignment = NoAlignment
    /\ annotation = NoAnnotation
    /\ manifest = NoManifest

CallDumpTree ==
    /\ call = NoCall
    /\ \E root \in {n.pk : n \in nodes} \cup {RootNone}, args \in DumpArguments :
          call' = [op |-> "dump_tree", root |-> root, up_to |-> args[1],
                   to_camel |-> args[2],
                   result |-> dump_tree(root, args[1], args[2])]
    /\ UNCHANGED <<nodes, tokens, procs, orch, ncalls,
                 context, alignment, annotation, manifest>>

NextDump == CallDumpTree

SpecDump == InitDump /\ [][NextDump]_vars

\* ------------------------------------------------------------------------
\* Token.tokenize on one text part, for every enumerated content
\* ------------------------------------------------------------------------
RECURSIVE StringsUpTo(_)
StringsUpTo(n) ==
    IF n = 0 THEN {<<>>}
    ELSE LET shorter == StringsUpTo(n - 1)
         IN shorter \cup {Append(s, c) : s \in shorter, c \in ContentAlphabet}

ExampleContents ==
    {<<"a", " ", "a", " ", "a", " ", "b", " ", "a">>,
     <<"a", " ", "a", "a", " ", "a">>,
     <<"a", "b", "a", "\n", "b", ",", " ", "b", "a">>}

TokContents == StringsUpTo(MaxContentLen) \cup ExampleContents \cup {None}

OneLine == <<(<<1>>)>>

InitTok ==
    /\ \E c \in TokContents :
          nodes = TreeOf(OneLine, <<DefaultUrn(1)>>, <<VersionMetadata>>,
                         [t \in {<<1, 1, 1>>} |-> c], FALSE)
    /\ tokens = <<>>
    /\ procs = NoProcs
    /\ orch = NoOrch
    /\ call = NoCall
    /\ ncalls = 0
    /\ context = NoContext
    /\ alignment = NoAlignment
    /\ annotation = NoAnnotation
    /\ manifest = NoManifest

CallTokenize ==
    /\ call = NoCall
    /\ \E n \in nodes, c \in 0..MaxStartIdx :
          /\ n.kind = "line"
          /\ call' = [op |-> "tokenize", self |-> n.pk, token_idx |-> c,
                      result |-> tokenize(n, c)]
    /\ UNCHANGED <<nodes, tokens, procs, orch, ncalls,
                 context, alignment, annotation, manifest>>

NextTok == CallTokenize

SpecTok == InitTok /\ [][NextTok]_vars

\* ------------------------------------------------------------------------
\* tokenize_text_parts and tokenize_all_text_parts over the Token table
\* ------------------------------------------------------------------------
UnknownUrn == <<"x", ":">>

\* a URN that differs from a stored version URN in case only: the exact
\* lookup of line 15 misses it where the icontains lookup of line 13
\* matches
CaseVariantUrn == <<"A", ":">>

\* the version URNs bulk ingestion may have stored for the two versions
UrnPairs ==
    {<<(<<"a", ":">>), (<<"b", ":">>)>>,
     <<(<<"a", ":">>), (<<"A", ":">>)>>,
     <<(<<"a", ":">>), (<<"b", "a", ":">>)>>,
     <<(<<"b", "a", ":">>), (<<"a", ":">>)>>}

MainShape == <<(<<1, 1>>), (<<1>>)>>
MainTextParts == {<<1, 1, 1>>, <<1, 2, 1>>, <<2, 1, 1>>}
MainContents == {<<"a", " ", "a">>, <<",">>, None}
MainMetadata == {VersionMetadata, NoMetadata}

Init ==
    /\ \E urnOf \in UrnPairs, metaOf \in [1..2 -> MainMetadata],
          contentOf \in [MainTextParts -> MainContents] :
          nodes = TreeOf(MainShape, urnOf, metaOf, contentOf, FALSE)
    /\ tokens = <<>>
    /\ procs = NoProcs
    /\ orch = NoOrch
    /\ call = NoCall
    /\ ncalls = 0
    /\ context = NoContext
    /\ alignment = NoAlignment
    /\ annotation = NoAnnotation
    /\ manifest = NoManifest

Finished(pc) == pc \in {"done", "failed"}

NoCallActive ==
    /\ orch.pc \in {"idle", "raised", "returned"}
    /\ \A k \in DOMAIN procs : Finished(procs[k].pc)

\* variant: the lookup is text_part__urn=urn, which no text part matches
DeleteTokens_exacturn(toks, urn) ==
    SelectSeq(toks, LAMBDA t : NodeByPk(t.text_part).urn # urn)

\* Token.objects.filter(text_part__urn__icontains=urn).delete()
DeleteTokens(toks, urn) ==
    SelectSeq(toks, LAMBDA t : ~IContains(NodeByPk(t.text_part).urn, urn))

\* variant: every text part starts again from the initial counter
RECURSIVE TokenizeAll_percounter(_, _, _, _)
TokenizeAll_percounter(text_parts, i, token_idx, to_create) ==
    IF i > Len(text_parts) THEN [raised |-> FALSE, to_create |-> to_create]
    ELSE LET r == tokenize(text_parts[i], token_idx)
         IN IF r.raised THEN [raised |-> TRUE, to_create |-> <<>>]
            ELSE TokenizeAll_percounter(text_parts, i + 1, token_idx,
                                        to_create \o r.to_create)

\* the frequency table after the pieces of one more text part
RECURSIVE TableAfter(_, _, _)
TableAfter(pieces, pos, idx) ==
    IF pos >= Len(pieces) THEN idx
    ELSE TableAfter(pieces, pos + 1,
                    CountSubstrings(idx, get_word_value(pieces[pos + 1]), 1, 1))

RECURSIVE SharedTable(_, _)
SharedTable(text_parts, i) ==
    IF i = 0 THEN EmptyDict
    ELSE TableAfter(Split(text_parts[i].text_content), 0,
                    SharedTable(text_parts, i - 1))

\* variant: one frequency table for the whole version
RECURSIVE TokenizeAll_sharedtable(_, _, _, _)
TokenizeAll_sharedtable(text_parts, i, token_idx, to_create) ==
    IF i > Len(text_parts) THEN [raised |-> FALSE, to_create |-> to_create]
    ELSE IF tokenize(text_parts[i], token_idx).raised
    THEN [raised |-> TRUE, to_create |-> <<>>]
    ELSE LET r == TokenizeLoop(text_parts[i], Split(text_parts[i].text_content),
                               0, SharedTable(text_parts, i - 1), token_idx, <<>>)
         IN TokenizeAll_sharedtable(text_parts, i + 1, r.token_idx,
                                    to_create \o r.to_create)

\* for text_part in text_parts: to_create.extend(Token.tokenize(...))
RECURSIVE TokenizeAll(_, _, _, _)
TokenizeAll(text_parts, i, token_idx, to_create) ==
    IF i > Len(text_parts) THEN [raised |-> FALSE, to_create |-> to_create]
    ELSE LET r == tokenize(text_parts[i], token_idx)
         IN IF r.raised THEN [raised |-> TRUE, to_create |-> <<>>]
            ELSE TokenizeAll(text_parts, i + 1, r.token_idx,
                             to_create \o r.to_create)

\* lines 15-21 of tokenize_text_parts: the rows to create, or raised when
\* the URN matches no node (DoesNotExist), the metadata has no
\* citation_scheme (KeyError) or a text part has no text_content
NewTokens(urn) ==
    IF ~(\E n \in nodes : n.urn = urn)
    THEN [raised |-> TRUE, to_create |-> <<>>]
    ELSE LET version_exemplar == CHOOSE n \in nodes : n.urn = urn
         IN IF "citation_scheme" \notin DOMAIN version_exemplar.metadata
            THEN [raised |-> TRUE, to_create |-> <<>>]
            ELSE LET scheme == version_exemplar.metadata.citation_scheme
                     lowest_kind == scheme[Len(scheme)]
                     text_parts == FilterKind(get_descendants(version_exemplar),
                                              lowest_kind)
                 IN TokenizeAll(text_parts, 1, 0, <<>>)

\* a caller invokes tokenize_text_parts(urn, force) directly
TTP_Call ==
    /\ NoCallActive
    /\ ncalls < MaxCalls
    /\ \E urn \in {n.urn : n \in {m \in nodes : m.kind \in {"version", "exemplar"}}}
                    \cup {UnknownUrn, CaseVariantUrn},
          force \in BOOLEAN :
          procs' = [k \in {0} |-> [urn |-> urn, force |-> force, pc |-> "start",
                                    deleted |-> 0]]
    /\ orch' = NoOrch
    /\ ncalls' = ncalls + 1
    /\ UNCHANGED <<nodes, tokens, call,
                 context, alignment, annotation, manifest>>

\* variant: the deletion is undone when the run fails (one transaction)
TTP_Delete_atomic(k) ==
    /\ procs[k].pc = "start"
    /\ tokens' = IF procs[k].force /\ ~NewTokens(procs[k].urn).raised
                 THEN DeleteTokens(tokens, procs[k].urn)
                 ELSE tokens
    /\ procs' = [procs EXCEPT ![k].pc = "deleted",
                             ![k].deleted = Len(tokens) - Len(DeleteTokens(tokens, procs[k].urn))]
    /\ UNCHANGED <<nodes, orch, call, ncalls,
                 context, alignment, annotation, manifest>>

\* variant: the forced run deletes the text parts, and with them their tokens
TTP_Delete_textparts(k) ==
    /\ procs[k].pc = "start"
    /\ tokens' = IF procs[k].force THEN DeleteTokens(tokens, procs[k].urn)
                 ELSE tokens
    /\ nodes' = IF procs[k].force
                THEN {n \in nodes : ~(n.kind = "line" /\ IContains(n.urn, procs[k].urn))}
                ELSE nodes
    /\ procs' = [procs EXCEPT ![k].pc = "deleted",
                             ![k].deleted = Len(tokens) - Len(tokens')]
    /\ UNCHANGED <<orch, call, ncalls, context, alignment, annotation, manifest>>

\* lines 12-13: the deletion step
TTP_Delete(k) ==
    /\ procs[k].pc = "start"
    /\ tokens' = IF procs[k].force THEN DeleteTokens(tokens, procs[k].urn)
                 ELSE tokens
    /\ procs' = [procs EXCEPT ![k].pc = "deleted",
                             ![k].deleted = Len(tokens) - Len(tokens')]
    /\ UNCHANGED <<nodes, orch, call, ncalls,
                 context, alignment, annotation, manifest>>

\* variant: rows equal to a stored token are not created again
TTP_Create_dedup(k) ==
    /\ procs[k].pc = "deleted"
    /\ ~NewTokens(procs[k].urn).raised
    /\ tokens' = tokens \o SelectSeq(NewTokens(procs[k].urn).to_create,
                                     LAMBDA t : t \notin SeqToSet(tokens))
    /\ procs' = [procs EXCEPT ![k].pc = "done"]
    /\ UNCHANGED <<nodes, orch, call, ncalls,
                 context, alignment, annotation, manifest>>

\* lines 15-23: the run creates its tokens in one bulk_create and returns
TTP_Create(k) ==
    /\ procs[k].pc = "deleted"
    /\ ~NewTokens(procs[k].urn).raised
    /\ tokens' = tokens \o NewTokens(procs[k].urn).to_create
    /\ procs' = [procs EXCEPT ![k].pc = "done"]
    /\ UNCHANGED <<nodes, orch, call, ncalls,
                 context, alignment, annotation, manifest>>

\* lines 15-21: the run raises before bulk_create
TTP_Raise(k) ==
    /\ procs[k].pc = "deleted"
    /\ NewTokens(procs[k].urn).raised
    /\ procs' = [procs EXCEPT ![k].pc = "failed"]
    /\ UNCHANGED <<nodes, tokens, orch, call, ncalls,
                 context, alignment, annotation, manifest>>

\* tokenize_all_text_parts(reset): one future per version / exemplar node
TATP_Submit ==
    /\ NoCallActive
    /\ ncalls < MaxCalls
    /\ \E reset \in BOOLEAN :
          /\ procs' = [k \in {n.pk : n \in {m \in nodes :
                                              m.kind \in {"version", "exemplar"}}}
                         |-> [urn |-> NodeByPk(k).urn, force |-> reset,
                              pc |-> "start", deleted |-> 0]]
          /\ orch' = [pc |-> "waiting", reset |-> reset, exceptions |-> FALSE,
                      consumed |-> {}, error |-> "none"]
    /\ ncalls' = ncalls + 1
    /\ UNCHANGED <<nodes, tokens, call,
                 context, alignment, annotation, manifest>>

\* variant: a future that raised is never yielded by the loop
TATP_Result_onlydone(k) ==
    /\ orch.pc = "waiting"
    /\ k \notin orch.consumed
    /\ procs[k].pc = "done"
    /\ orch' = [orch EXCEPT !.consumed = @ \cup {k}]
    /\ UNCHANGED <<nodes, tokens, procs, call, ncalls,
                 context, alignment, annotation, manifest>>

\* one iteration of the as_completed loop: f.result() returns or raises
\* variant: no try / except around f.result()
TATP_Result_reraise(k) ==
    /\ orch.pc = "waiting"
    /\ k \notin orch.consumed
    /\ Finished(procs[k].pc)
    /\ orch' = IF procs[k].pc = "failed"
               THEN [orch EXCEPT !.pc = "raised", !.error = "task exception",
                                 !.consumed = @ \cup {k}]
               ELSE [orch EXCEPT !.consumed = @ \cup {k}]
    /\ UNCHANGED <<nodes, tokens, procs, call, ncalls,
                 context, alignment, annotation, manifest>>

TATP_Result(k) ==
    /\ orch.pc = "waiting"
    /\ k \notin orch.consumed
    /\ Finished(procs[k].pc)
    /\ orch' = [orch EXCEPT !.exceptions = @ \/ procs[k].pc = "failed",
                            !.consumed = @ \cup {k}]
    /\ UNCHANGED <<nodes, tokens, procs, call, ncalls,
                 context, alignment, annotation, manifest>>

\* variant: the loop is left at the first failure
TATP_Exit_early ==
    /\ orch.pc = "waiting"
    /\ (orch.consumed = DOMAIN procs \/ orch.exceptions)
    /\ orch' = [orch EXCEPT !.pc = IF orch.exceptions THEN "raised"
                                   ELSE "returned",
                            !.error = IF orch.exceptions THEN "AssertionError"
                                      ELSE "none"]
    /\ UNCHANGED <<nodes, tokens, procs, call, ncalls,
                 context, alignment, annotation, manifest>>

\* the loop is exhausted, the executor is shut down, lines 43-44
TATP_Exit ==
    /\ orch.pc = "waiting"
    /\ orch.consumed = DOMAIN procs
    /\ orch' = [orch EXCEPT !.pc = IF orch.exceptions THEN "raised"
                                   ELSE "returned",
                            !.error = IF orch.exceptions THEN "AssertionError"
                                      ELSE "none"]
    /\ UNCHANGED <<nodes, tokens, procs, call, ncalls,
                 context, alignment, annotation, manifest>>

Next ==
    \/ TTP_Call
    \/ \E k \in DOMAIN procs : TTP_Delete(k)
    \/ \E k \in DOMAIN procs : TTP_Create(k)
    \/ \E k \in DOMAIN procs : TTP_Raise(k)
    \/ TATP_Submit
    \/ \E k \in DOMAIN procs : TATP_Result(k)
    \/ TATP_Exit

Spec == Init /\ [][Next]_vars

\* ------------------------------------------------------------------------
\* tokenize_all_text_parts under a fair worker pool: every submitted task
\* is run to its end by some worker process, and the as_completed loop
\* takes each finished future.
\* ------------------------------------------------------------------------
FairContents == {<<"a">>, None}

InitFair ==
    /\ \E contentOf \in [MainTextParts -> FairContents] :
          nodes = TreeOf(MainShape, <<(<<"a", ":">>), (<<"b", ":">>)>>,
                         <<VersionMetadata, VersionMetadata>>, contentOf, FALSE)
    /\ tokens = <<>>
    /\ procs = NoProcs
    /\ orch = NoOrch
    /\ call = NoCall
    /\ ncalls = 0
    /\ context = NoContext
    /\ alignment = NoAlignment
    /\ annotation = NoAnnotation
    /\ manifest = NoManifest

WorkerStep ==
    \/ \E k \in DOMAIN procs : TTP_Delete(k)
    \/ \E k \in DOMAIN procs : TTP_Create(k)
    \/ \E k \in DOMAIN procs : TTP_Raise(k)

OrchestratorStep ==
    \/ \E k \in DOMAIN procs : TATP_Result(k)
    \/ TATP_Exit

NextFair == TATP_Submit \/ WorkerStep \/ OrchestratorStep

\* a worker process runs the task it was given to its end: the position of
\* an unfinished task advances.  A task at start has the step TTP_Delete
\* and a task at deleted has exactly one of TTP_Create and TTP_Raise, so
\* on the steps of NextFair this is weak fairness of WorkerStep, stated on
\* the positions alone.
TaskAdvances ==
    \E k \in DOMAIN procs :
        \/ /\ procs[k].pc = "start"
           /\ procs' = [procs EXCEPT ![k].pc = "deleted"]
        \/ /\ procs[k].pc = "deleted"
           /\ procs' \in {[procs EXCEPT ![k].pc = "done"],
                          [procs EXCEPT ![k].pc = "failed"]}

SpecFair ==
    /\ InitFair
    /\ [][NextFair]_vars
    /\ WF_procs(TaskAdvances)
    /\ WF_vars(OrchestratorStep)

\* ------------------------------------------------------------------------
\* The core operations together: tree queries, dump_tree and the two
\* tokenization entry points, called one after another on one database.
\* ------------------------------------------------------------------------
CoreContents ==
    [t \in MainTextParts |-> IF t = <<2, 1, 1>> THEN <<",">> ELSE <<"a", " ", "a">>]

InitCore ==
    /\ nodes = TreeOf(MainShape, <<(<<"a", ":">>), (<<"b", ":">>)>>,
                      <<VersionMetadata, VersionMetadata>>, CoreContents, FALSE)
    /\ tokens = <<>>
    /\ procs = NoProcs
    /\ orch = NoOrch
    /\ call = NoCall
    /\ ncalls = 0
    /\ context = NoContext
    /\ alignment = NoAlignment
    /\ annotation = NoAnnotation
    /\ manifest = NoManifest

CoreGetDescendants ==
    /\ NoCallActive
    /\ ncalls < MaxCalls
    /\ \E n \in nodes :
          call' = [op |-> "get_descendants", self |-> n.pk,
                   result |-> Pks(get_descendants(n))]
    /\ ncalls' = ncalls + 1
    /\ UNCHANGED <<nodes, tokens, procs, orch, context, alignment, annotation, manifest>>

CoreGetChildren ==
    /\ NoCallActive
    /\ ncalls < MaxCalls
    /\ \E n \in nodes :
          call' = [op |-> "get_children", self |-> n.pk,
                   result |-> Pks(get_children(n))]
    /\ ncalls' = ncalls + 1
    /\ UNCHANGED <<nodes, tokens, procs, orch, context, alignment, annotation, manifest>>

CoreGetRefpartSiblings ==
    /\ NoCallActive
    /\ ncalls < MaxCalls
    /\ \E n \in nodes, v \in nodes :
          /\ v.kind \in {"version", "exemplar"}
          /\ call' = [op |-> "get_refpart_siblings", self |-> n.pk,
                      version |-> v.pk,
                      result |-> Pks(get_refpart_siblings(n, v))]
    /\ ncalls' = ncalls + 1
    /\ UNCHANGED <<nodes, tokens, procs, orch, context, alignment, annotation, manifest>>

CoreDumpTree ==
    /\ NoCallActive
    /\ ncalls < MaxCalls
    /\ \E root \in {n.pk : n \in nodes} \cup {RootNone}, args \in DumpArguments :
          call' = [op |-> "dump_tree", root |-> root, up_to |-> args[1],
                   to_camel |-> args[2],
                   result |-> dump_tree(root, args[1], args[2])]
    /\ ncalls' = ncalls + 1
    /\ UNCHANGED <<nodes, tokens, procs, orch, context, alignment, annotation, manifest>>

NextCore ==
    \/ CoreGetDescendants
    \/ CoreGetChildren
    \/ CoreGetRefpartSiblings
    \/ CoreDumpTree
    \/ TTP_Call
    \/ \E k \in DOMAIN procs : TTP_Delete(k)
    \/ \E k \in DOMAIN procs : TTP_Create(k)
    \/ \E k \in DOMAIN procs : TTP_Raise(k)
    \/ TATP_Submit
    \/ \E k \in DOMAIN procs : TATP_Result(k)
    \/ TATP_Exit

SpecCore == InitCore /\ [][NextCore]_vars

\* ------------------------------------------------------------------------
\* TextAlignmentMetadata.passage_references.  An alignment has an ordered
\* list of versions and records; a record's relations link tokens.  Tokens
\* are the rows tokenize_text_parts creates for each version.
\* ------------------------------------------------------------------------
AlignVersionCount == 3

AlignShape == [v \in 1..AlignVersionCount |-> <<MaxLines>>]

AlignContents ==
    [t \in (1..AlignVersionCount) \X {1} \X (1..MaxLines) |->
        IF t[3] = 1 THEN <<"a", " ", "a">> ELSE <<"a">>]

AlignNodes ==
    TreeOf(AlignShape,
           [v \in 1..AlignVersionCount |-> DefaultUrn(v)],
           [v \in 1..AlignVersionCount |-> VersionMetadata],
           AlignContents, FALSE)

VersionPk(v) == PathNum(<<1, 1, 1, v>>)

RECURSIVE TokensOfVersions(_)
TokensOfVersions(v) ==
    IF v > AlignVersionCount THEN <<>>
    ELSE NewTokens(DefaultUrn(v)).to_create \o TokensOfVersions(v + 1)

\* the orders in which two or three of the versions can be stored
VersionOrders ==
    {o \in UNION {[1..k -> 1..AlignVersionCount] : k \in 2..AlignVersionCount} :
        \A i \in DOMAIN o, j \in DOMAIN o : i # j => o[i] # o[j]}

\* tokens of one version linked by a relation: an idx span, possibly empty
Spans ==
    {<<0, -1>>} \cup {<<lo, hi>> \in (0..MaxLines) \X (0..MaxLines) : lo <= hi}

Relation(v, span) ==
    [version |-> VersionPk(v),
     tokens |-> {t \in SeqToSet(tokens) :
                    /\ IsStrictPrefix(<<1, 1, 1, v>>, NodeByPk(t.text_part).path)
                    /\ span[1] <= t.idx
                    /\ t.idx <= span[2]}]

\* extract_version_urn_and_ref: the reference is split after its last colon
LastColon(reference) ==
    CHOOSE i \in DOMAIN reference :
        reference[i] = ":" /\ \A j \in DOMAIN reference : reference[j] = ":" => j <= i

extract_version_urn_and_ref(reference) ==
    <<SubSeq(reference, 1, LastColon(reference)),
      SubSeq(reference, LastColon(reference) + 1, Len(reference))>>

\* number of relations of the given records that link token t
LinkCount(t, alignment_records) ==
    Cardinality({x \in UNION {{<<i, rel>> : rel \in alignment_records[i].relations}
                                : i \in DOMAIN alignment_records} :
                    t \in x[2].tokens})

\* Token.objects.filter(alignment_record_relations__record__in=...): the
\* join gives one row per linking relation
RECURSIVE TokensLinked(_, _, _)
TokensLinked(toks, i, alignment_records) ==
    IF i > Len(toks) THEN <<>>
    ELSE [k \in 1..LinkCount(toks[i], alignment_records) |-> toks[i]]
            \o TokensLinked(toks, i + 1, alignment_records)

\* order_by("idx")
RECURSIVE OrderByIdx(_)
OrderByIdx(toks) ==
    IF toks = <<>> THEN <<>>
    ELSE LET m == CHOOSE x \in {toks[i].idx : i \in DOMAIN toks} :
                      \A y \in {toks[i].idx : i \in DOMAIN toks} : x <= y
         IN SelectSeq(toks, LAMBDA t : t.idx = m)
                \o OrderByIdx(SelectSeq(toks, LAMBDA t : t.idx # m))

\* variant: the last ref is always appended
get_passage_reference_always(version_urn, text_parts_list) ==
    version_urn \o text_parts_list[1].ref \o <<"-">>
        \o text_parts_list[Len(text_parts_list)].ref

get_passage_reference(version_urn, text_parts_list) ==
    LET first_ref == text_parts_list[1].ref
        last_ref == text_parts_list[Len(text_parts_list)].ref
    IN IF last_ref # first_ref
       THEN version_urn \o first_ref \o <<"-">> \o last_ref
       ELSE version_urn \o first_ref

generate_passage_reference(version_urn, tokens_qs) ==
    LET tokens_list ==
            OrderByIdx(SelectSeq(tokens_qs,
                LAMBDA t : StartsWith(NodeByPk(t.text_part).urn, version_urn)))
        text_parts_list ==
            OrderByPath({n \in nodes :
                \E i \in DOMAIN tokens_list : tokens_list[i].text_part = n.pk})
    IN IF text_parts_list = <<>> \/ tokens_list = <<>>
       THEN [error |-> "IndexError"]
       ELSE [error |-> "none",
             reference |-> get_passage_reference(version_urn, text_parts_list),
             start_idx |-> tokens_list[1].idx,
             end_idx |-> tokens_list[Len(tokens_list)].idx]

\* the loop over alignment.versions.exclude(urn=version_urn)
RECURSIVE RemainingReferences(_, _, _, _)
RemainingReferences(versions, i, tokens_qs, references) ==
    IF i > Len(versions) THEN [error |-> "none", references |-> references]
    ELSE LET r == generate_passage_reference(NodeByPk(versions[i]).urn, tokens_qs)
         IN IF r.error # "none" THEN [error |-> r.error, references |-> <<>>]
            ELSE RemainingReferences(versions, i + 1, tokens_qs,
                                     Append(references, r))

passage_references(alignment_records, passage_reference) ==
    IF alignment_records = <<>> THEN [error |-> "none", references |-> <<>>]
    ELSE LET tokens_qs == TokensLinked(tokens, 1, alignment_records)
             version_urn == extract_version_urn_and_ref(passage_reference)[1]
             first == generate_passage_reference(version_urn, tokens_qs)
         IN IF first.error # "none"
            THEN [error |-> first.error, references |-> <<>>]
            ELSE RemainingReferences(
                     SelectSeq(alignment.versions,
                               LAMBDA pk : NodeByPk(pk).urn # version_urn),
                     1, tokens_qs, <<first>>)

InitAlign ==
    /\ nodes = AlignNodes
    /\ tokens = TokensOfVersions(1)
    /\ procs = NoProcs
    /\ orch = NoOrch
    /\ call = NoCall
    /\ ncalls = 0
    /\ context = NoContext
    /\ \E order \in VersionOrders :
       \E spans \in [DOMAIN order -> Spans] :
          alignment =
             [versions |-> [i \in DOMAIN order |-> VersionPk(order[i])],
              records |->
                 <<[idx |-> 0,
                    relations |-> {Relation(order[i], spans[i]) : i \in DOMAIN order}],
                   [idx |-> 1,
                    relations |-> {Relation(order[1], <<0, 0>>)}]>>]
    /\ annotation = NoAnnotation
    /\ manifest = NoManifest

\* the records handed to the metadata object: none, the first, or both
RecordSelections == {SubSeq(alignment.records, 1, k) : k \in 0..Len(alignment.records)}

CallPassageReferences ==
    /\ call = NoCall
    /\ \E anchor \in SeqToSet(alignment.versions),
          alignment_records \in RecordSelections :
          LET passage_reference == NodeByPk(anchor).urn \o LineRef(1, 1)
          IN call' = [op |-> "passage_references",
                      passage |-> passage_reference,
                      alignment_records |-> alignment_records,
                      result |-> passage_references(alignment_records,
                                                    passage_reference)]
    /\ UNCHANGED <<nodes, tokens, procs, orch, ncalls,
                 context, alignment, annotation, manifest>>

CallGeneratePassageReference ==
    /\ call = NoCall
    /\ \E version \in SeqToSet(alignment.versions),
          alignment_records \in RecordSelections \ {<<>>} :
          call' = [op |-> "generate_passage_reference",
                   version |-> version,
                   alignment_records |-> alignment_records,
                   result |-> generate_passage_reference(
                                  NodeByPk(version).urn,
                                  TokensLinked(tokens, 1, alignment_records))]
    /\ UNCHANGED <<nodes, tokens, procs, orch, ncalls,
                 context, alignment, annotation, manifest>>

NextAlign == CallPassageReferences \/ CallGeneratePassageReference

SpecAlign == InitAlign /\ [][NextAlign]_vars

\* ------------------------------------------------------------------------
\* initialize_passage on a request context.  passage_heal belongs to the
\* backports package; its outcomes follow the passage resolver's contract:
\* an exact reference resolves to itself, one that does not resolve is
\* clamped to the nearest existing sibling or ancestor and reported as
\* healed, and it raises when the version is unknown or nothing is left to
\* clamp to.
\* ------------------------------------------------------------------------
HealShapes ==
    {<<>>} \cup
    {<<[b \in 1..nb |-> IF b = nb THEN nl ELSE MaxLines]>> :
        nb \in 1..MaxBooks, nl \in 1..MaxLines} \cup {<<(<<>>)>>}

\* "1" or "1.2": the dotted form of one or two indices
RefOf(comps) ==
    IF Len(comps) = 1 THEN BookRef(comps[1]) ELSE LineRef(comps[1], comps[2])

DigitVal(c) == CHOOSE d \in 0..9 : Digits[d + 1] = c

\* the indices of a dotted reference with single-digit components
Components(ref) ==
    [i \in 1..((Len(ref) + 1) \div 2) |-> DigitVal(ref[2 * i - 1])]

\* requested references: every existing one, and indices up to two past
\* the largest
HealReferences ==
    {urn \o RefOf(comps) :
        urn \in {DefaultUrn(1), UnknownUrn},
        comps \in UNION {[1..k -> 1..(MaxLines + 2)] : k \in 1..2}}

Passage(reference) == [reference |-> reference]

Distance(a, b) == IF a < b THEN b - a ELSE a - b

\* text parts of the version whose ref is the given one
Resolved(version, ref) ==
    {n \in nodes : IsStrictPrefix(version.path, n.path) /\ n.ref = ref}

\* existing siblings closest to the missing last index under the same parent
NearestSiblings(version, comps) ==
    LET parentpath == version.path \o SubSeq(comps, 1, Len(comps) - 1)
        siblings == {n \in nodes : /\ IsStrictPrefix(parentpath, n.path)
                                   /\ Len(n.path) = Len(parentpath) + 1}
        last == comps[Len(comps)]
    IN {n \in siblings :
           \A o \in siblings :
               Distance(n.path[Len(n.path)], last)
                   <= Distance(o.path[Len(o.path)], last)}

\* the closest existing citation part above the missing one
NearestAncestors(version, comps) ==
    {n \in nodes :
        /\ Len(comps) = 2
        /\ n.path = version.path \o SubSeq(comps, 1, 1)}

passage_heal(reference) ==
    LET version_urn == extract_version_urn_and_ref(reference)[1]
        ref == extract_version_urn_and_ref(reference)[2]
    IN IF ~(\E n \in nodes : n.kind = "version" /\ n.urn = version_urn)
       THEN {[error |-> "VersionNotFoundError"]}
       ELSE LET version == CHOOSE n \in nodes : n.urn = version_urn
                candidates == NearestSiblings(version, Components(ref))
                                 \cup NearestAncestors(version, Components(ref))
            IN IF Resolved(version, ref) # {}
               THEN {[error |-> "none", passage |-> Passage(reference),
                      healed |-> FALSE]}
               ELSE IF candidates = {}
               THEN {[error |-> "UnresolvableReferenceError"]}
               ELSE {[error |-> "none",
                      passage |-> Passage(version_urn \o n.ref),
                      healed |-> TRUE] : n \in candidates}

\* setattr(gql_context, name, value)
SetAttr(gql_context, name, value) ==
    [k \in (DOMAIN gql_context) \cup {name} |->
        IF k = name THEN value ELSE gql_context[k]]

\* variant: the healed reference is recorded on every call
initialize_passage_alwaysset(gql_context, reference, outcome) ==
    [context |-> SetAttr(SetAttr(gql_context, "passage", outcome.passage),
                         "healed_passage_reference", outcome.passage.reference),
     returned |-> outcome.passage.reference]

\* variant: the requested reference is returned
initialize_passage_returninput(gql_context, reference, outcome) ==
    LET ctx == SetAttr(gql_context, "passage", outcome.passage)
    IN [context |-> IF outcome.healed
                    THEN SetAttr(ctx, "healed_passage_reference",
                                 outcome.passage.reference)
                    ELSE ctx,
        returned |-> reference]

\* initialize_passage once passage_heal has returned (passage, healed)
initialize_passage(gql_context, reference, outcome) ==
    LET ctx == SetAttr(gql_context, "passage", outcome.passage)
    IN [context |-> IF outcome.healed
                    THEN SetAttr(ctx, "healed_passage_reference",
                                 outcome.passage.reference)
                    ELSE ctx,
        returned |-> outcome.passage.reference]

\* getattr(info.context, "healed_passage_reference", None)
resolve_healed_passage(gql_context) ==
    IF "healed_passage_reference" \in DOMAIN gql_context
    THEN gql_context.healed_passage_reference
    ELSE None

InitHeal ==
    /\ \E shape \in HealShapes :
          nodes = TreeOf(shape,
                         [v \in 1..Len(shape) |-> DefaultUrn(v)],
                         [v \in 1..Len(shape) |-> VersionMetadata],
                         [t \in {1} \X (1..MaxBooks) \X (1..MaxLines) |-> <<"a">>],
                         FALSE)
    /\ tokens = <<>>
    /\ procs = NoProcs
    /\ orch = NoOrch
    /\ call = NoCall
    /\ ncalls = 0
    /\ context = NoContext
    /\ alignment = NoAlignment
    /\ annotation = NoAnnotation
    /\ manifest = NoManifest

\* a reference filter resolves its reference on the request's context
InitializePassage ==
    /\ ncalls < MaxCalls
    /\ \E reference \in HealReferences :
       \E outcome \in passage_heal(reference) :
          /\ outcome.error = "none"
          /\ LET r == initialize_passage(context, reference, outcome)
             IN /\ context' = r.context
                /\ call' = [op |-> "initialize_passage",
                            reference |-> reference,
                            fresh |-> context = NoContext,
                            error |-> "none",
                            healed |-> outcome.healed,
                            returned |-> r.returned]
    /\ ncalls' = ncalls + 1
    /\ UNCHANGED <<nodes, tokens, procs, orch, alignment, annotation, manifest>>

\* passage_heal raises: the exception leaves initialize_passage
InitializePassageRaise ==
    /\ ncalls < MaxCalls
    /\ \E reference \in HealReferences :
       \E outcome \in passage_heal(reference) :
          /\ outcome.error # "none"
          /\ call' = [op |-> "initialize_passage",
                      reference |-> reference,
                      fresh |-> context = NoContext,
                      error |-> outcome.error]
    /\ ncalls' = ncalls + 1
    /\ UNCHANGED <<nodes, tokens, procs, orch, context, alignment, annotation, manifest>>

NextHeal == InitializePassage \/ InitializePassageRaise

SpecHeal == InitHeal /\ [][NextHeal]_vars

\* ------------------------------------------------------------------------
\* resolve_references of TextAnnotation, MetricalAnnotation and
\* AudioAnnotation: the three methods differ in the printed message only.
\* ------------------------------------------------------------------------
AnnotationKinds == {"text", "metrical", "audio"}

AnnotNodes ==
    TreeOf(<<(<<MaxLines>>)>>, <<DefaultUrn(1)>>, <<VersionMetadata>>,
           [t \in {1} \X {1} \X (1..MaxLines) |-> <<"a">>], FALSE)

\* URNs an annotation may list: two text parts, a version, and one URN
\* that no node has
AnnotUrns ==
    {DefaultUrn(1) \o LineRef(1, 1), DefaultUrn(1) \o LineRef(1, MaxLines),
     DefaultUrn(1), UnknownUrn \o LineRef(1, 1)}

NoReferences == [x \in {} |-> <<>>]

AnnotData ==
    {NoReferences}
        \cup {[references |-> refs] :
                 refs \in UNION {[1..k -> AnnotUrns] : k \in 0..MaxRefs}}

\* variant: text_parts is written only when every URN resolved
resolve_references_allornothing(self) ==
    IF "references" \notin DOMAIN self.data
    THEN [printed |-> "No references found", unresolved_urns |-> {},
          text_parts |-> self.text_parts]
    ELSE LET desired_urns == SeqToSet(self.data.references)
             reference_objs == OrderByPath({n \in nodes : n.urn \in desired_urns})
             resolved_urns == {reference_objs[i].urn : i \in DOMAIN reference_objs}
             delta_urns == (desired_urns \ resolved_urns)
                              \cup (resolved_urns \ desired_urns)
         IN IF delta_urns # {}
            THEN [printed |-> "Could not resolve all references",
                  unresolved_urns |-> delta_urns,
                  text_parts |-> self.text_parts]
            ELSE [printed |-> "none", unresolved_urns |-> {},
                  text_parts |-> Pks(reference_objs)]

resolve_references(self) ==
    IF "references" \notin DOMAIN self.data
    THEN [printed |-> "No references found", unresolved_urns |-> {},
          text_parts |-> self.text_parts]
    ELSE LET desired_urns == SeqToSet(self.data.references)
             reference_objs == OrderByPath({n \in nodes : n.urn \in desired_urns})
             resolved_urns == {reference_objs[i].urn : i \in DOMAIN reference_objs}
             delta_urns == (desired_urns \ resolved_urns)
                              \cup (resolved_urns \ desired_urns)
         IN [printed |-> IF delta_urns # {}
                         THEN "Could not resolve all references" ELSE "none",
             unresolved_urns |-> delta_urns,
             text_parts |-> Pks(reference_objs)]

InitAnnot ==
    /\ nodes = AnnotNodes
    /\ tokens = <<>>
    /\ procs = NoProcs
    /\ orch = NoOrch
    /\ call = NoCall
    /\ ncalls = 0
    /\ context = NoContext
    /\ alignment = NoAlignment
    /\ manifest = NoManifest
    /\ \E kind \in AnnotationKinds, data \in AnnotData,
          text_parts \in {<<>>, <<PathNum(<<1, 1, 1, 1, 1, 1>>)>>} :
          annotation = [kind |-> kind, data |-> data, text_parts |-> text_parts]

ResolveReferences(kind) ==
    /\ call = NoCall
    /\ annotation.kind = kind
    /\ LET r == resolve_references(annotation)
       IN /\ annotation' = [annotation EXCEPT !.text_parts = r.text_parts]
          /\ call' = [op |-> "resolve_references",
                      before |-> annotation.text_parts,
                      printed |-> r.printed,
                      unresolved_urns |-> r.unresolved_urns]
    /\ UNCHANGED <<nodes, tokens, procs, orch, ncalls, context, alignment,
                 manifest>>

TextAnnotationResolveReferences == ResolveReferences("text")
MetricalAnnotationResolveReferences == ResolveReferences("metrical")
AudioAnnotationResolveReferences == ResolveReferences("audio")

NextAnnot ==
    \/ TextAnnotationResolveReferences
    \/ MetricalAnnotationResolveReferences
    \/ AudioAnnotationResolveReferences

SpecAnnot == InitAnnot /\ [][NextAnnot]_vars

\* ------------------------------------------------------------------------
\* TextPartFilterSet.reference_filter on the text part queryset
\* ------------------------------------------------------------------------
RefAlphabet == {"1", "2", ".", "-"}

RECURSIVE RefsUpTo(_)
RefsUpTo(n) ==
    IF n = 0 THEN {<<>>}
    ELSE LET shorter == RefsUpTo(n - 1)
         IN shorter \cup {Append(s, c) : s \in shorter, c \in RefAlphabet}

ExampleRefs ==
    {<<"1", ".", "1", "-", "1", ".", "2">>,
     <<"1", ".", "1", "-", "1", ".", "2", "-", "2", ".", "1">>,
     <<"1", ".", "1", "-">>}

FilterRefs == (RefsUpTo(MaxRefLen) \ {<<>>}) \cup ExampleRefs

\* filter_via_ref_predicate: the rows of the queryset the predicate selects
filter_via_ref_predicate(queryset, refs) ==
    OrderByPath({n \in queryset : n.ref \in refs})

reference_filter(queryset, value) ==
    LET version_urn == extract_version_urn_and_ref(value)[1]
        ref == extract_version_urn_and_ref(value)[2]
        parts == SplitSep(ref, "-")
    IN IF Len(parts) # 2 THEN [error |-> "ValueError", result |-> <<>>]
       ELSE LET start == parts[1]
                end == parts[2]
                refs == IF end # <<>> THEN {start, end} ELSE {start}
            IN [error |-> "none",
                result |-> filter_via_ref_predicate(
                    {n \in queryset :
                        /\ StartsWith(n.urn, version_urn)
                        /\ n.depth = Len(SplitSep(start, ".")) + 1},
                    refs)]

InitFilter ==
    /\ \E shape \in HealShapes \ {<<>>} :
          nodes = TreeOf(shape,
                         [v \in 1..Len(shape) |-> DefaultUrn(v)],
                         [v \in 1..Len(shape) |-> VersionMetadata],
                         [t \in {1} \X (1..MaxBooks) \X (1..MaxLines) |-> <<"a">>],
                         FALSE)
    /\ tokens = <<>>
    /\ procs = NoProcs
    /\ orch = NoOrch
    /\ call = NoCall
    /\ ncalls = 0
    /\ context = NoContext
    /\ alignment = NoAlignment
    /\ annotation = NoAnnotation
    /\ manifest = NoManifest

CallReferenceFilter ==
    /\ call = NoCall
    /\ \E ref \in FilterRefs :
          LET value == DefaultUrn(1) \o ref
              r == reference_filter(nodes, value)
          IN call' = [op |-> "reference_filter", value |-> value,
                      error |-> r.error, result |-> Pks(r.result)]
    /\ UNCHANGED <<nodes, tokens, procs, orch, ncalls,
                 context, alignment, annotation, manifest>>

NextFilter == CallReferenceFilter

SpecFilter == InitFilter /\ [][NextFilter]_vars

\* ------------------------------------------------------------------------
\* update_corpora_shas: the manifest maps repository names to
\* ref / sha / tarball_url; GitHub is the environment of the command.
\* ------------------------------------------------------------------------
RepoName(i) == <<"o", "/", "r">> \o Str(i)

RecordedShas == {"s0", "s1"}
RemoteShas == {"s1", "s2"}
ReleaseTag == "v1"
DefaultBranch == "main"

\* the manifests the command may find: distinct repository names, each
\* with a recorded sha
InitialManifests ==
    UNION {{[i \in 1..n |-> [repo_name |-> RepoName(i),
                             ref |-> DefaultBranch,
                             sha |-> shaOf[i],
                             tarball_url |-> <<"tarball", shaOf[i]>>]] :
               shaOf \in [1..n -> RecordedShas]} : n \in 0..MaxRepos}

\* what GitHub answers for one repository: get_repo finds it or not;
\* get_latest_release returns a release, answers 404 (no release) or fails
\* otherwise; commit is what get_commit(target_commitish) returns, branch
\* what the default branch's head is, compare whether repo.compare succeeds.
\* Answers the command never reads are fixed.
NormalRemote(r) ==
    /\ (~r.found \/ r.release = "error") =>
           (r.commit = "error" /\ r.branch = "error" /\ r.compare = "ok")
    /\ ~r.found => r.release = "none"
    /\ r.release = "none" => r.commit = "error"
    /\ (r.release = "release" /\ r.commit = "error") =>
           (r.branch = "error" /\ r.compare = "ok")
    /\ (r.release = "release" /\ r.commit # "error") => r.branch # "error"
    /\ (r.release = "none" /\ r.branch = "error") => r.compare = "ok"

RemoteStates ==
    {r \in [found : BOOLEAN,
            release : {"release", "none", "error"},
            commit : RemoteShas \cup {"error"},
            branch : RemoteShas \cup {"error"},
            compare : {"ok", "error"}] : NormalRemote(r)}

\* ReleaseResolver.fetch_latest_release
fetch_latest_release(remote) ==
    IF remote.release = "none" THEN [error |-> "UnknownObjectException"]
    ELSE IF remote.release = "error" \/ remote.commit = "error"
    THEN [error |-> "GithubException"]
    ELSE [error |-> "none",
          ref |-> ReleaseTag,
          latest_commit_sha |-> remote.commit,
          tarball_url |-> <<"tarball", ReleaseTag>>]

\* ReleaseResolver.fetch_latest_commit
fetch_latest_commit(remote) ==
    IF remote.branch = "error" THEN [error |-> "GithubException"]
    ELSE [error |-> "none",
          ref |-> DefaultBranch,
          latest_commit_sha |-> remote.branch,
          tarball_url |-> <<"tarball", remote.branch>>]

\* ReleaseResolver.resolve_release; self_sha is data["sha"]
resolve_release(self_sha, remote) ==
    IF ~remote.found THEN [error |-> "UnknownObjectException"]
    ELSE LET release == fetch_latest_release(remote)
             fetched == IF release.error = "UnknownObjectException"
                        THEN fetch_latest_commit(remote)
                        ELSE release
         IN IF fetched.error # "none" THEN [error |-> fetched.error]
            ELSE LET should_update == fetched.latest_commit_sha # self_sha
                 IN IF should_update /\ remote.compare = "error"
                    THEN [error |-> "GithubException"]
                    ELSE [error |-> "none",
                          ref |-> fetched.ref,
                          latest_commit_sha |-> fetched.latest_commit_sha,
                          tarball_url |-> fetched.tarball_url,
                          should_update |-> should_update,
                          diff_url |-> IF should_update
                                       THEN <<self_sha, fetched.latest_commit_sha>>
                                       ELSE <<>>]

\* corpus_dict[repo_name] = dict(...): replaces the entry of that name or
\* appends a new one
DictSet(corpus_dict, entry) ==
    IF \E i \in 1..Len(corpus_dict) : corpus_dict[i].repo_name = entry.repo_name
    THEN [i \in 1..Len(corpus_dict) |->
             IF corpus_dict[i].repo_name = entry.repo_name THEN entry
             ELSE corpus_dict[i]]
    ELSE Append(corpus_dict, entry)

\* variant: only a repository whose sha changed gets an entry
update_corpus_onlychanged(corpus_dict, repo_name, data, remote) ==
    LET r == resolve_release(data.sha, remote)
    IN IF r.error # "none" THEN [error |-> r.error]
       ELSE [error |-> "none",
             corpus_dict |->
                 IF r.should_update
                 THEN DictSet(corpus_dict, [repo_name |-> repo_name,
                                            ref |-> r.ref,
                                            sha |-> r.latest_commit_sha,
                                            tarball_url |-> r.tarball_url])
                 ELSE corpus_dict,
             status |-> [full_name |-> repo_name,
                         should_update |-> r.should_update,
                         sha |-> data.sha,
                         latest_commit_sha |-> r.latest_commit_sha,
                         diff_url |-> r.diff_url]]

\* ReleaseResolver.update_corpus
update_corpus(corpus_dict, repo_name, data, remote) ==
    LET r == resolve_release(data.sha, remote)
    IN IF r.error # "none" THEN [error |-> r.error]
       ELSE [error |-> "none",
             corpus_dict |-> DictSet(corpus_dict, [repo_name |-> repo_name,
                                                   ref |-> r.ref,
                                                   sha |-> r.latest_commit_sha,
                                                   tarball_url |-> r.tarball_url]),
             status |-> [full_name |-> repo_name,
                         should_update |-> r.should_update,
                         sha |-> data.sha,
                         latest_commit_sha |-> r.latest_commit_sha,
                         diff_url |-> r.diff_url]]

InitSha ==
    /\ nodes = {}
    /\ tokens = <<>>
    /\ procs = NoProcs
    /\ orch = NoOrch
    /\ call = NoCall
    /\ ncalls = 0
    /\ context = NoContext
    /\ alignment = NoAlignment
    /\ annotation = NoAnnotation
    /\ manifest \in InitialManifests

CommandRunning == call.op = "update_corpora_shas" /\ call.pc = "loop"

\* Command.handle up to the loop: the manifest is loaded
HandleLoad ==
    /\ ~CommandRunning
    /\ ncalls < MaxCalls
    /\ call' = [op |-> "update_corpora_shas",
                pc |-> "loop",
                corpus |-> manifest,
                new_corpus |-> <<>>,
                statuses |-> <<>>,
                remote |-> <<>>,
                error |-> "none"]
    /\ ncalls' = ncalls + 1
    /\ UNCHANGED <<nodes, tokens, procs, orch, context, alignment, annotation,
                 manifest>>

\* one iteration of the loop over corpus.items() that returns
HandleResolve ==
    /\ CommandRunning
    /\ Len(call.statuses) < Len(call.corpus)
    /\ \E remote \in RemoteStates :
          LET data == call.corpus[Len(call.statuses) + 1]
              r == update_corpus(call.new_corpus, data.repo_name, data, remote)
          IN /\ r.error = "none"
             /\ call' = [call EXCEPT !.new_corpus = r.corpus_dict,
                                     !.statuses = Append(@, r.status),
                                     !.remote = Append(@, remote)]
    /\ UNCHANGED <<nodes, tokens, procs, orch, ncalls, context, alignment,
                 annotation, manifest>>

\* one iteration whose resolver raises: the exception leaves handle
HandleResolveRaise ==
    /\ CommandRunning
    /\ Len(call.statuses) < Len(call.corpus)
    /\ \E remote \in RemoteStates :
          LET data == call.corpus[Len(call.statuses) + 1]
              r == update_corpus(call.new_corpus, data.repo_name, data, remote)
          IN /\ r.error # "none"
             /\ call' = [call EXCEPT !.pc = "failed",
                                     !.remote = Append(@, remote),
                                     !.error = r.error]
    /\ UNCHANGED <<nodes, tokens, procs, orch, ncalls, context, alignment,
                 annotation, manifest>>

\* yaml.round_trip_dump(new_corpus, manifest.open("w"))
HandleDump ==
    /\ CommandRunning
    /\ Len(call.statuses) = Len(call.corpus)
    /\ manifest' = call.new_corpus
    /\ call' = [call EXCEPT !.pc = "done"]
    /\ UNCHANGED <<nodes, tokens, procs, orch, ncalls, context, alignment,
                 annotation>>

NextSha == HandleLoad \/ HandleResolve \/ HandleResolveRaise \/ HandleDump

SpecSha == InitSha /\ [][NextSha]_vars

\* ------------------------------------------------------------------------
\* Properties of Token.tokenize
\* ------------------------------------------------------------------------
TokenizeReturned == call.op = "tokenize" /\ ~call.result.raised

Created == call.result.to_create

\* C1 (as claimed): after Token.tokenize on a text part, no two of its
\* tokens have the same subref_value, pieces made only of punctuation
\* included.
C1_SubrefUnique ==
    TokenizeReturned =>
        \A i, j \in 1..Len(Created) :
            i # j => Created[i].subref_value # Created[j].subref_value

\* C1 (amended): two tokens of one text part have the same subref_value
\* only if both have an empty word_value (pieces without any word
\* character, which all get "[0]").
C1_SubrefUniqueForWords ==
    TokenizeReturned =>
        \A i, j \in 1..Len(Created) :
            (i # j /\ Created[i].subref_value = Created[j].subref_value)
                => (Created[i].word_value = <<>> /\ Created[j].word_value = <<>>)

C1_Witness ==
    /\ TokenizeReturned
    /\ \E i, j \in 1..Len(Created) :
          /\ i < j
          /\ Created[i].word_value = Created[j].word_value
          /\ Created[i].word_value # <<>>

\* number of tokens at or before position j with exactly the word w
ExactCount(toks, j, w) ==
    Cardinality({i \in 1..j : toks[i].word_value = w})

\* number of start positions at which w occurs in x (w non-empty)
Occurrences(w, x) ==
    Cardinality({k \in 1..(Len(x) - Len(w) + 1) :
                    SubSeq(x, k, k + Len(w) - 1) = w})

RECURSIVE SumOccurrences(_, _, _)
SumOccurrences(toks, j, w) ==
    IF j = 0 THEN 0
    ELSE SumOccurrences(toks, j - 1, w) + Occurrences(w, toks[j].word_value)

SubstringCount(toks, j, w) ==
    IF w = <<>> THEN 0 ELSE SumOccurrences(toks, j, w)

Subref(w, n) == w \o <<"[">> \o Str(n) \o <<"]">>

\* C2 (as claimed): the bracketed counter of a token is the number of tokens
\* at or before it in the text part whose word_value is exactly its own;
\* occurrences inside other words do not count.
C2_CounterIsExactCount ==
    TokenizeReturned =>
        \A j \in 1..Len(Created) :
            Created[j].subref_value =
                Subref(Created[j].word_value,
                       ExactCount(Created, j, Created[j].word_value))

\* C2 (amended): the bracketed counter of a token is the number of
\* occurrences of its word_value as a contiguous substring, counted at every
\* start position, in the word_values of the tokens at or before it in the
\* text part (itself included); it is 0 for an empty word_value.
C2_CounterIsSubstringCount ==
    TokenizeReturned =>
        \A j \in 1..Len(Created) :
            Created[j].subref_value =
                Subref(Created[j].word_value,
                       SubstringCount(Created, j, Created[j].word_value))

C2_Witness ==
    /\ TokenizeReturned
    /\ \E j \in 1..Len(Created) :
          /\ Created[j].word_value # <<>>
          /\ SubstringCount(Created, j, Created[j].word_value)
               > ExactCount(Created, j, Created[j].word_value)
          /\ ExactCount(Created, j, Created[j].word_value) > 1

\* ------------------------------------------------------------------------
\* Properties of the tree queries
\* ------------------------------------------------------------------------
AscendingByPath(pks) ==
    \A i, j \in 1..Len(pks) :
        i < j => PathLess(NodeByPk(pks[i]).path, NodeByPk(pks[j]).path)

NoRepeats(s) == \A i, j \in 1..Len(s) : i # j => s[i] # s[j]

\* C9: get_descendants(N) returns exactly the nodes whose path has N.path as
\* a strict prefix, never N itself, in ascending path order, whatever
\* numchild the rows store.
C9_Descendants ==
    call.op = "get_descendants" =>
        LET N == NodeByPk(call.self)
        IN /\ SeqToSet(call.result)
                = {n.pk : n \in {m \in nodes : IsStrictPrefix(N.path, m.path)}}
           /\ call.self \notin SeqToSet(call.result)
           /\ NoRepeats(call.result)
           /\ AscendingByPath(call.result)

C9_Witness ==
    /\ call.op = "get_descendants"
    /\ NodeByPk(call.self).numchild = 0
    /\ Len(call.result) >= 3

\* C10: for a version V and a citation part N of rank R,
\* N.get_refpart_siblings(V) returns all and only the descendants of V of
\* rank R, in path order, across different parent citation units.
C10_RefpartSiblings ==
    (call.op = "get_refpart_siblings" /\ NodeByPk(call.self).rank # NoneInt) =>
        LET N == NodeByPk(call.self)
            V == NodeByPk(call.version)
        IN /\ SeqToSet(call.result)
                = {n.pk : n \in {m \in nodes : /\ IsStrictPrefix(V.path, m.path)
                                               /\ m.rank = N.rank}}
           /\ NoRepeats(call.result)
           /\ AscendingByPath(call.result)

C10_Witness ==
    /\ call.op = "get_refpart_siblings"
    /\ NodeByPk(call.self).rank = 2
    /\ \E i, j \in 1..Len(call.result) :
          LET a == NodeByPk(call.result[i]).path
              b == NodeByPk(call.result[j]).path
          IN SubSeq(a, 1, Len(a) - 1) # SubSeq(b, 1, Len(b) - 1)

\* ------------------------------------------------------------------------
\* Properties of tokenize_text_parts and tokenize_all_text_parts
\* ------------------------------------------------------------------------
VersionNodes == {n \in nodes : n.kind \in {"version", "exemplar"}}

\* the rows of toks whose text part lies under version V, in table order
VersionTokens(toks, V) ==
    SelectSeq(toks, LAMBDA t : IsStrictPrefix(V.path, NodeByPk(t.text_part).path))

OtherTokens(toks, V) ==
    SelectSeq(toks, LAMBDA t : ~IsStrictPrefix(V.path, NodeByPk(t.text_part).path))

\* t comes before u in text-part traversal (path) order, then by position
Before(t, u) ==
    \/ PathLess(NodeByPk(t.text_part).path, NodeByPk(u.text_part).path)
    \/ (t.text_part = u.text_part /\ t.position < u.position)

\* in path order and then by position the idx values are 0, 1, ..., n-1
IdxContiguous(toks) ==
    /\ \A i, j \in 1..Len(toks) :
          i # j => (Before(toks[i], toks[j]) \/ Before(toks[j], toks[i]))
    /\ \A i \in 1..Len(toks) :
          toks[i].idx = Cardinality({j \in 1..Len(toks) : Before(toks[j], toks[i])})

ForcedRunCompletes(k) == TTP_Create(k) /\ procs[k].force

VersionOf(urn) == CHOOSE n \in nodes : n.urn = urn

\* C3: when tokenize_text_parts(V, force=True) completes, the tokens of V
\* taken in text-part path order and then by position have idx exactly
\* 0, 1, ..., n-1.
C3_IdxGapless ==
    [][\A k \in DOMAIN procs :
          ForcedRunCompletes(k) =>
              IdxContiguous(VersionTokens(tokens', VersionOf(procs[k].urn)))]_vars

C3_Witness ==
    \E k \in DOMAIN procs :
        /\ procs[k].pc = "done"
        /\ procs[k].force
        /\ LET toks == VersionTokens(tokens, VersionOf(procs[k].urn))
           IN /\ IdxContiguous(toks)
              /\ \E i, j \in 1..Len(toks) :
                    /\ toks[i].text_part # toks[j].text_part
                    /\ toks[j].idx > 1

\* C4: every completed tokenize_text_parts(V, force=True) on the unchanged
\* tree leaves V with one and the same token sequence, the one a single run
\* on an empty table creates, whatever tokens earlier runs had stored.
C4_ForcedRunIdempotent ==
    [][\A k \in DOMAIN procs :
          ForcedRunCompletes(k) =>
              VersionTokens(tokens', VersionOf(procs[k].urn))
                  = NewTokens(procs[k].urn).to_create]_vars

C4_Witness ==
    /\ ncalls = 2
    /\ 0 \in DOMAIN procs
    /\ procs[0].pc = "done"
    /\ procs[0].force
    /\ Len(tokens) = Len(NewTokens(procs[0].urn).to_create)
    /\ Len(tokens) >= 3

\* C5: the deletion step of tokenize_text_parts(V, force=True) removes only
\* tokens whose text part belongs to V; the tokens of every other version
\* stay as they were, whatever the URNs of the other versions are.
C5_DeleteScoped ==
    [][\A k \in DOMAIN procs :
          (TTP_Delete(k) /\ procs[k].force) =>
              \A W \in VersionNodes :
                  W.urn # procs[k].urn =>
                      VersionTokens(tokens', W) = VersionTokens(tokens, W)]_vars

OrchTerminated == orch.pc \in {"raised", "returned"}

\* what the task of version V leaves when it runs alone
AloneTokens(V) ==
    IF NewTokens(V.urn).raised THEN <<>> ELSE NewTokens(V.urn).to_create

\* C6: after tokenize_all_text_parts(reset=True), under every interleaving,
\* the tokens of each version are those its own task produces when run
\* alone, also when another task failed.
C6_TasksIsolated ==
    (OrchTerminated /\ orch.reset) =>
        \A V \in VersionNodes : VersionTokens(tokens, V) = AloneTokens(V)

SomeTaskFailed == \E k \in DOMAIN procs : procs[k].pc = "failed"

\* C7: tokenize_all_text_parts ends by raising the one aggregate
\* AssertionError exactly when some task raised, returns normally exactly
\* when none did, and never lets a task's own exception out.
C7_AggregateFailure ==
    /\ OrchTerminated =>
          /\ (orch.pc = "raised") <=> SomeTaskFailed
          /\ (orch.pc = "returned") <=> ~SomeTaskFailed
    /\ orch.pc = "raised" => orch.error = "AssertionError"
    /\ orch.pc # "raised" => orch.error = "none"

C7_Witness ==
    /\ orch.pc = "raised"
    /\ Cardinality({k \in DOMAIN procs : procs[k].pc = "failed"}) = 2

\* C8: the aggregate failure is raised only after every dispatched task has
\* completed, and no step, a sibling's failure included, removes or cancels
\* an unfinished task: it only ever advances towards its own completion.
C8_RaisedAfterAllComplete ==
    /\ [](OrchTerminated => \A k \in DOMAIN procs : Finished(procs[k].pc))
    /\ [][\A k \in DOMAIN procs :
            ~Finished(procs[k].pc) =>
                /\ k \in DOMAIN procs'
                /\ procs'[k].pc \in {procs[k].pc, "deleted", "done", "failed"}]_vars

C8_Witness ==
    /\ orch.pc = "raised"
    /\ \E k \in DOMAIN procs : procs[k].pc = "done"
    /\ \E k \in DOMAIN procs : procs[k].pc = "failed"

\* C11: get_children(N) returns exactly the nodes one level below N whose
\* path continues N.path (the interval N owns), in path order; it is the
\* depth N.depth+1 part of get_descendants(N), holds no node of another
\* subtree, and does not depend on numchild.
C11_Children ==
    call.op = "get_children" =>
        LET N == NodeByPk(call.self)
        IN /\ SeqToSet(call.result)
                = {n.pk : n \in {m \in nodes : /\ IsStrictPrefix(N.path, m.path)
                                               /\ Len(m.path) = Len(N.path) + 1}}
           /\ NoRepeats(call.result)
           /\ AscendingByPath(call.result)
           /\ call.result
                = Pks(SelectSeq(get_descendants(N),
                                LAMBDA m : m.depth = N.depth + 1))

C11_Witness ==
    /\ call.op = "get_children"
    /\ NodeByPk(call.self).numchild = 0
    /\ NodeByPk(call.self).kind = "version"
    /\ Len(call.result) >= 2
    /\ \E n \in nodes : n.depth = 6 /\ IsStrictPrefix(NodeByPk(call.self).path, n.path)
    /\ \E n \in nodes : n.kind = "book" /\ ~IsStrictPrefix(NodeByPk(call.self).path, n.path)

\* ------------------------------------------------------------------------
\* dump_tree: reading the emitted object graph
\* ------------------------------------------------------------------------
DumpCalled == call.op = "dump_tree"

Recognized(up_to) == up_to.given /\ up_to.value \in SeqToSet(CTS_URN_NODES)

\* child entries of an emitted entry (none when the key is absent)
ChildrenOf(entry) == IF "children" \in DOMAIN entry THEN entry.children ELSE <<>>

\* how many times the entry of a path occurs in the nesting
Appearances(result, path) ==
    Cardinality({i \in DOMAIN result.tree : result.tree[i] = path})
    + Cardinality(UNION {{<<q, i>> : i \in {j \in DOMAIN ChildrenOf(result.index[q]) :
                                               ChildrenOf(result.index[q])[j] = path}} :
                         q \in DOMAIN result.index})

\* every path named anywhere in the nesting
Emitted(result) ==
    SeqToSet(result.tree)
        \cup UNION {SeqToSet(ChildrenOf(result.index[q])) : q \in DOMAIN result.index}

\* the nodes of the subtree of root (the whole tree without a root)
Subtree(root) ==
    IF root = RootNone THEN nodes
    ELSE {n \in nodes : StartsWith(n.path, NodeByPk(root).path)}

IsParentPath(P, C) == Len(C) = Len(P) + 1 /\ SubSeq(C, 1, Len(P)) = P

\* C12 as stated: dump_tree raises the invalid-boundary error exactly when
\* up_to is given and is not a recognized citation-unit kind.
C12_InvalidUpToFails ==
    DumpCalled =>
        (call.result.error = "ValueError"
            <=> (call.up_to.given /\ ~Recognized(call.up_to)))

\* C12 (amended): dump_tree raises the invalid-boundary error, producing no
\* tree, exactly when up_to is a non-empty string that is not a recognized
\* kind; an omitted, empty or recognized up_to never fails this way.
C12_NonEmptyInvalidUpToFails ==
    DumpCalled =>
        /\ call.result.error = "ValueError"
              <=> (call.up_to.given /\ call.up_to.value # ""
                      /\ ~Recognized(call.up_to))
        /\ call.result.error = "ValueError"
              => call.result.tree = <<>> /\ DOMAIN call.result.index = {}

C12_Witness ==
    /\ DumpCalled
    /\ call.up_to = UpTo("book")
    /\ call.result.error = "ValueError"
    /\ \E n \in nodes : n.kind = "book"

\* C13: for every root (or none) dump_tree emits each selected node exactly
\* once, C is nested in P's children exactly when P.path is C.path minus
\* its last step, entries without an emitted parent are the top level, and
\* the parent lookup never fails.
C13_Nesting ==
    DumpCalled =>
        /\ call.result.error # "KeyError"
        /\ call.result.error = "none" =>
              LET r == call.result
                  selected == {n \in Subtree(call.root) :
                                  Truthy(call.up_to) =>
                                      n.depth <= CTS_URN_DEPTHS[call.up_to.value]}
              IN /\ Emitted(r) = {n.path : n \in selected}
                 /\ DOMAIN r.index = Emitted(r)
                 /\ \A n \in selected :
                       /\ Appearances(r, n.path) = 1
                       /\ r.index[n.path].data.urn = n.urn
                 /\ \A P \in DOMAIN r.index, C \in DOMAIN r.index :
                       (C \in SeqToSet(ChildrenOf(r.index[P])))
                           <=> IsParentPath(P, C)
                 /\ \A C \in DOMAIN r.index :
                       (C \in SeqToSet(r.tree))
                           <=> ~\E P \in DOMAIN r.index : IsParentPath(P, C)

C13_Witness ==
    /\ DumpCalled
    /\ call.result.error = "none"
    /\ call.root # RootNone
    /\ NodeByPk(call.root).kind = "work"
    /\ Len(call.result.tree) = 1
    /\ \E P \in DOMAIN call.result.index :
          /\ Len(ChildrenOf(call.result.index[P])) >= 2
          /\ \E C \in SeqToSet(ChildrenOf(call.result.index[P])) :
                Len(ChildrenOf(call.result.index[C])) >= 1

\* C14: with a recognized up_to, dump_tree emits exactly the nodes of the
\* subtree of root whose depth is at most the depth of that kind; deeper
\* nodes are absent and no entry lists one as a child.
C14_UpToDepth ==
    (DumpCalled /\ Recognized(call.up_to)) =>
        /\ call.result.error = "none"
        /\ Emitted(call.result)
              = {n.path : n \in {m \in Subtree(call.root) :
                                    m.depth <= CTS_URN_DEPTHS[call.up_to.value]}}
        /\ \A q \in DOMAIN call.result.index :
              \A c \in SeqToSet(ChildrenOf(call.result.index[q])) :
                 Len(c) <= CTS_URN_DEPTHS[call.up_to.value]

C14_Witness ==
    /\ DumpCalled
    /\ call.up_to = UpTo("version")
    /\ call.root # RootNone
    /\ NodeByPk(call.root).kind = "textgroup"
    /\ \E n \in Subtree(call.root) : n.depth = 6
    /\ \E p \in Emitted(call.result) : Len(p) = 4
    /\ \A p \in Emitted(call.result) : Len(p) <= 4

\* C15 as stated: every emitted entry has a data field and a children
\* field, the latter an empty list for a leaf.
C15_DataAndChildren ==
    (DumpCalled /\ call.result.error = "none") =>
        \A p \in DOMAIN call.result.index :
            /\ "data" \in DOMAIN call.result.index[p]
            /\ "children" \in DOMAIN call.result.index[p]

\* C15 (amended): every emitted entry has a data field; it has a children
\* field exactly when at least one emitted node is its child, and the list
\* is then non-empty; the entry of a node without emitted children has only
\* the data field.
C15_ChildrenOnlyWhenPresent ==
    (DumpCalled /\ call.result.error = "none") =>
        \A p \in DOMAIN call.result.index :
            LET entry == call.result.index[p]
            IN /\ "data" \in DOMAIN entry
               /\ ("children" \in DOMAIN entry)
                     <=> (\E c \in DOMAIN call.result.index : IsParentPath(p, c))
               /\ ("children" \in DOMAIN entry) => Len(entry.children) >= 1
               /\ ("children" \notin DOMAIN entry) => DOMAIN entry = {"data"}

C15_Witness ==
    /\ DumpCalled
    /\ call.result.error = "none"
    /\ \E p \in DOMAIN call.result.index :
          "children" \notin DOMAIN call.result.index[p]
    /\ \E p \in DOMAIN call.result.index :
          "children" \in DOMAIN call.result.index[p]

\* ------------------------------------------------------------------------
\* Alignment references
\* ------------------------------------------------------------------------
\* tokens of the version with primary key pk that the given records link
LinkedTokens(pk, alignment_records) ==
    {t \in SeqToSet(tokens) :
        /\ IsStrictPrefix(NodeByPk(pk).path, NodeByPk(t.text_part).path)
        /\ \E i \in DOMAIN alignment_records :
              \E rel \in alignment_records[i].relations : t \in rel.tokens}

LowestIdx(toks) == CHOOSE t \in toks : \A u \in toks : t.idx <= u.idx
HighestIdx(toks) == CHOOSE t \in toks : \A u \in toks : u.idx <= t.idx

AnchorUrn == extract_version_urn_and_ref(call.passage)[1]

\* C16: for a non-empty set of records passage_references returns one
\* reference per participating version, the anchor's version first and the
\* other versions in the alignment's stored order, also when some
\* participating version has no token linked by the records.
C16_OneReferencePerVersion ==
    (call.op = "passage_references" /\ call.alignment_records # <<>>) =>
        LET others == SelectSeq(alignment.versions,
                                LAMBDA pk : NodeByPk(pk).urn # AnchorUrn)
            refs == call.result.references
        IN /\ call.result.error = "none"
           /\ Len(refs) = Len(alignment.versions)
           /\ StartsWith(refs[1].reference, AnchorUrn)
           /\ \A k \in DOMAIN others :
                 StartsWith(refs[k + 1].reference, NodeByPk(others[k]).urn)

\* C17: generate_passage_reference gives the version URN followed by the
\* ref of the text part owning the linked token of lowest idx and, only
\* when it differs, a hyphen and the ref of the text part owning the linked
\* token of highest idx; only that version's tokens count, and start_idx
\* and end_idx are the lowest and highest idx.
C17_SpanningReference ==
    call.op = "generate_passage_reference" =>
        LET linked == LinkedTokens(call.version, call.alignment_records)
            urn == NodeByPk(call.version).urn
        IN linked # {} =>
              LET lo == LowestIdx(linked)
                  hi == HighestIdx(linked)
                  first_ref == NodeByPk(lo.text_part).ref
                  last_ref == NodeByPk(hi.text_part).ref
              IN /\ call.result.error = "none"
                 /\ call.result.start_idx = lo.idx
                 /\ call.result.end_idx = hi.idx
                 /\ call.result.reference
                       = IF first_ref = last_ref THEN urn \o first_ref
                         ELSE urn \o first_ref \o <<"-">> \o last_ref

C17_Witness ==
    /\ call.op = "generate_passage_reference"
    /\ call.result.error = "none"
    /\ call.result.reference
          = NodeByPk(call.version).urn \o LineRef(1, 1) \o <<"-">> \o LineRef(1, 2)
    /\ call.result.start_idx = 1
    /\ Len(call.alignment_records) = 2
    /\ \E pk \in SeqToSet(alignment.versions) :
          /\ pk # call.version
          /\ \E t \in LinkedTokens(pk, call.alignment_records) : t.idx = 0

\* ------------------------------------------------------------------------
\* Passage healing
\* ------------------------------------------------------------------------
InitializeCalled == call.op = "initialize_passage"

RequestedUrn == extract_version_urn_and_ref(call.reference)[1]
RequestedIndices == Components(extract_version_urn_and_ref(call.reference)[2])

\* the requested version exists in the tree
KnownVersion == \E n \in nodes : n.kind = "version" /\ n.urn = RequestedUrn

RequestedVersionPath == (CHOOSE n \in nodes : n.urn = RequestedUrn).path

\* the citation parts directly under the parent of the requested one
RequestedSiblings ==
    LET parentpath == RequestedVersionPath
                         \o SubSeq(RequestedIndices, 1, Len(RequestedIndices) - 1)
    IN {n \in nodes : /\ Len(n.path) = Len(parentpath) + 1
                      /\ SubSeq(n.path, 1, Len(parentpath)) = parentpath}

WithinBounds ==
    \E n \in nodes : n.path = RequestedVersionPath \o RequestedIndices

\* the last index is one more than the last existing sibling's
OnePastLast ==
    /\ RequestedSiblings # {}
    /\ RequestedIndices[Len(RequestedIndices)] = Cardinality(RequestedSiblings) + 1

\* the last existing sibling, and the citation part above the requested one
NearestValid ==
    {RequestedUrn \o n.ref :
        n \in {m \in RequestedSiblings :
                  m.path[Len(m.path)] = Cardinality(RequestedSiblings)}}
    \cup
    {RequestedUrn \o n.ref :
        n \in {m \in nodes :
                  /\ Len(RequestedIndices) = 2
                  /\ m.path = RequestedVersionPath \o SubSeq(RequestedIndices, 1, 1)}}

C19_HealedReferenceRecorded ==
    (InitializeCalled /\ call.fresh /\ call.error = "none") =>
        /\ ("healed_passage_reference" \in DOMAIN context) <=> call.healed
        /\ call.healed =>
              context.healed_passage_reference = context.passage.reference
        /\ resolve_healed_passage(context)
              = IF call.healed THEN context.passage.reference ELSE None
        /\ call.returned = context.passage.reference
        /\ call.healed \/ call.returned = call.reference

C19_Witness ==
    /\ InitializeCalled
    /\ call.fresh
    /\ call.error = "none"
    /\ call.healed
    /\ call.returned # call.reference
    /\ context.healed_passage_reference = call.returned
    /\ context.passage.reference = call.returned

\* ------------------------------------------------------------------------
\* Annotation references
\* ------------------------------------------------------------------------
ListedUrns ==
    IF "references" \in DOMAIN annotation.data
    THEN SeqToSet(annotation.data.references) ELSE {}

\* C20: resolve_references on a text, metrical or audio annotation does not
\* fail when listed URNs are missing from the tree: it reports exactly the
\* unresolved URNs and sets text_parts to exactly the nodes whose URN is
\* listed; without a references key text_parts is left unchanged.
C20_ResolvableSubset ==
    call.op = "resolve_references" =>
        IF "references" \in DOMAIN annotation.data
        THEN /\ SeqToSet(annotation.text_parts)
                   = {n.pk : n \in {m \in nodes : m.urn \in ListedUrns}}
             /\ NoRepeats(annotation.text_parts)
             /\ call.unresolved_urns
                   = {u \in ListedUrns : ~\E n \in nodes : n.urn = u}
             /\ (call.printed = "Could not resolve all references")
                   <=> (\E u \in ListedUrns : ~\E n \in nodes : n.urn = u)
        ELSE /\ annotation.text_parts = call.before
             /\ call.printed = "No references found"

C20_Witness ==
    /\ call.op = "resolve_references"
    /\ annotation.kind = "metrical"
    /\ call.unresolved_urns = {UnknownUrn \o LineRef(1, 1)}
    /\ annotation.text_parts = <<PathNum(<<1, 1, 1, 1, 1, MaxLines>>)>>
    /\ call.before = <<PathNum(<<1, 1, 1, 1, 1, 1>>)>>

\* ------------------------------------------------------------------------
\* The node tree under the core operations
\* ------------------------------------------------------------------------
\* C21: no core operation changes the node tree: over any sequence of
\* get_descendants, get_children, get_refpart_siblings, dump_tree,
\* tokenize_text_parts and tokenize_all_text_parts calls the set of nodes
\* and every field of every node stay as they were; only tokens change.
C21_TreeReadOnly == [][nodes' = nodes]_vars

C21_Witness ==
    /\ ncalls = MaxCalls
    /\ call.op = "dump_tree"
    /\ call.result.error = "none"
    /\ tokens # <<>>
    /\ \E k \in DOMAIN procs : procs[k].pc = "done" /\ procs[k].force

\* ------------------------------------------------------------------------
\* Pieces and positions
\* ------------------------------------------------------------------------
TokenizedContent == NodeByPk(call.self).text_content

\* indices at which a whitespace-delimited piece of s begins
PieceStarts(s) ==
    {i \in 1..Len(s) : s[i] \notin Whitespace /\ (i = 1 \/ s[i - 1] \in Whitespace)}

\* the index at which the piece beginning at i ends
PieceEnd(s, i) ==
    CHOOSE j \in i..Len(s) :
        /\ \A k \in i..j : s[k] \notin Whitespace
        /\ (j = Len(s) \/ s[j + 1] \in Whitespace)

\* the n-th piece of s, from the left
NthPiece(s, n) ==
    LET start == CHOOSE i \in PieceStarts(s) :
                     Cardinality({k \in PieceStarts(s) : k < i}) = n - 1
    IN SubSeq(s, start, PieceEnd(s, start))

\* C22: Token.tokenize produces one token per whitespace-delimited piece,
\* in order, with positions 1, 2, ..., n and ve_ref made of the text part's
\* ref and t{position}; empty or whitespace-only content yields no token
\* and leaves the idx counter where it was.
C22_OneTokenPerPiece ==
    TokenizeReturned =>
        LET n == Cardinality(PieceStarts(TokenizedContent))
        IN /\ Len(Created) = n
           /\ call.result.token_idx = call.token_idx + n
           /\ \A i \in 1..n :
                 /\ Created[i].value = NthPiece(TokenizedContent, i)
                 /\ Created[i].position = i
                 /\ Created[i].ve_ref
                       = NodeByPk(call.self).ref \o <<".", "t">> \o Str(i)
                 /\ Created[i].idx = call.token_idx + i - 1

C22_Witness ==
    /\ TokenizeReturned
    /\ TokenizedContent = <<"a", " ", " ", "b">>
    /\ call.token_idx = 1
    /\ Len(Created) = 2
    /\ Created[2].ve_ref = <<"1", ".", "1", ".", "t", "2">>

\* ------------------------------------------------------------------------
\* Runs without deletion
\* ------------------------------------------------------------------------
\* number of stored rows equal to token t
Copies(toks, t) == Cardinality({i \in DOMAIN toks : toks[i] = t})

\* the rows a step appended to the Token table
Appended == SubSeq(tokens', Len(tokens) + 1, Len(tokens'))

UniqueIdx(toks) ==
    \A i, j \in DOMAIN toks : i # j => toks[i].idx # toks[j].idx

\* C23: a run with force=False deletes nothing and appends a complete new
\* set of tokens for V with idx restarting at 0: every token of the new set
\* gains one stored copy, and when V already had tokens its idx values are
\* no longer unique.
C23_NoDeduplication ==
    [][\A k \in (DOMAIN procs) \cap (DOMAIN procs') :
          /\ (procs[k].pc = "start" /\ ~procs[k].force /\ procs'[k].pc = "deleted")
                => tokens' = tokens
          /\ (procs[k].pc = "deleted" /\ ~procs[k].force /\ procs'[k].pc = "done")
                => LET V == VersionOf(procs[k].urn)
                   IN /\ SubSeq(tokens', 1, Len(tokens)) = tokens
                      /\ \A i \in DOMAIN Appended :
                            /\ Appended[i].idx = i - 1
                            /\ IsStrictPrefix(V.path,
                                              NodeByPk(Appended[i].text_part).path)
                            /\ Copies(tokens', Appended[i])
                                  = Copies(tokens, Appended[i]) + 1
                      /\ \A n \in {m \in nodes : /\ m.kind = "line"
                                                 /\ IsStrictPrefix(V.path, m.path)} :
                            Cardinality({i \in DOMAIN Appended :
                                            Appended[i].text_part = n.pk})
                               = Cardinality(PieceStarts(n.text_content))
                      /\ (VersionTokens(tokens, V) # <<>> /\ Appended # <<>>)
                            => ~UniqueIdx(VersionTokens(tokens', V))]_vars

C23_Witness ==
    /\ 0 \in DOMAIN procs
    /\ procs[0].pc = "done"
    /\ ~procs[0].force
    /\ Len(tokens) >= 4
    /\ \A i \in DOMAIN tokens : Copies(tokens, tokens[i]) = 2
    /\ ~UniqueIdx(VersionTokens(tokens, VersionOf(procs[0].urn)))

\* ------------------------------------------------------------------------
\* The frequency table of a text part
\* ------------------------------------------------------------------------
\* what a token says apart from its place in the version
TokenFacts(toks) ==
    [i \in DOMAIN toks |->
        [value |-> toks[i].value, word_value |-> toks[i].word_value,
         position |-> toks[i].position, subref_value |-> toks[i].subref_value]]

AppendedOf(n) == SelectSeq(Appended, LAMBDA t : t.text_part = n.pk)

LinesOf(V) == {m \in nodes : m.kind = "line" /\ IsStrictPrefix(V.path, m.path)}

\* C24: the value, word_value, position and subref_value of a text part's
\* tokens depend only on its own content: they are what tokenizing it alone
\* gives for any counter, the subref counts are counts within its own
\* tokens, and two text parts of the version with the same content get the
\* same values wherever they stand; only idx differs.
C24_TablePerTextPart ==
    [][\A k \in (DOMAIN procs) \cap (DOMAIN procs') :
          (procs[k].pc = "deleted" /\ procs'[k].pc = "done") =>
              \A p \in LinesOf(VersionOf(procs[k].urn)) :
                 LET own == AppendedOf(p)
                 IN /\ \A c \in 0..MaxStartIdx :
                          TokenFacts(own) = TokenFacts(tokenize(p, c).to_create)
                    /\ \A i \in DOMAIN own :
                          own[i].subref_value
                             = Subref(own[i].word_value,
                                      SubstringCount(own, i, own[i].word_value))
                    /\ \A q \in LinesOf(VersionOf(procs[k].urn)) :
                          q.text_content = p.text_content =>
                             /\ TokenFacts(AppendedOf(q)) = TokenFacts(own)
                             /\ (q # p /\ own # <<>>) =>
                                   own[1].idx # AppendedOf(q)[1].idx]_vars

C24_Witness ==
    /\ \E k \in DOMAIN procs : procs[k].pc = "done"
    /\ \E i, j \in DOMAIN tokens :
          /\ tokens[i].text_part = PathNum(<<1, 1, 1, 1, 1, 1>>)
          /\ tokens[j].text_part = PathNum(<<1, 1, 1, 1, 2, 1>>)
          /\ tokens[i].idx = 1
          /\ tokens[j].idx = 3
          /\ tokens[i].subref_value = <<"a", "[", "2", "]">>
          /\ tokens[j].subref_value = <<"a", "[", "2", "]">>

\* ------------------------------------------------------------------------
\* The reference filter
\* ------------------------------------------------------------------------
FilterRef == extract_version_urn_and_ref(call.value)[2]

\* the hyphen-separated endpoints of the requested ref
Endpoints == SplitSep(FilterRef, "-")

\* one or more single-digit indices joined by dots
IsDottedIndex(s) ==
    /\ Len(s) % 2 = 1
    /\ \A i \in DOMAIN s : IF i % 2 = 1 THEN s[i] \in {"1", "2"} ELSE s[i] = "."

\* text parts of the requested version with one of the given refs
TextPartsWithRef(refs) ==
    {n.pk : n \in {m \in nodes :
                      /\ IsStrictPrefix(<<1, 1, 1, 1>>, m.path)
                      /\ m.ref \in refs}}

\* C25: reference_filter accepts a ref that is a single dotted index or a
\* two-endpoint range and selects the version's text parts whose ref is the
\* start or the end; a ref with more than two endpoints is rejected as
\* malformed.
C25_ReferenceFilter ==
    call.op = "reference_filter" =>
        /\ (Len(Endpoints) = 1 /\ IsDottedIndex(Endpoints[1])) =>
              /\ call.error = "none"
              /\ SeqToSet(call.result) = TextPartsWithRef({Endpoints[1]})
        /\ (Len(Endpoints) = 2 /\ IsDottedIndex(Endpoints[1])
                /\ IsDottedIndex(Endpoints[2])) =>
              /\ call.error = "none"
              /\ SeqToSet(call.result)
                    = TextPartsWithRef({Endpoints[1], Endpoints[2]})
        /\ Len(Endpoints) > 2 => call.error # "none"

\* ------------------------------------------------------------------------
\* Lowest citable part
\* ------------------------------------------------------------------------
\* the text after the last dot of a ref
LastComponent(ref) ==
    LET dots == {i \in DOMAIN ref : ref[i] = "."}
        from == IF dots = {} THEN 1
                ELSE (CHOOSE i \in dots : \A j \in dots : j <= i) + 1
    IN SubSeq(ref, from, Len(ref))

\* C26: lsb is an alias of lowest_citable_part: for every node it returns
\* the same value, None for a node without rank and otherwise the last
\* dot-separated component of the ref, and it never raises.
C26_LsbAlias ==
    call.op = "lsb" =>
        LET N == NodeByPk(call.self)
        IN /\ call.result.error = "none"
           /\ call.result = lowest_citable_part(N)
           /\ call.result.value
                 = IF N.rank = NoneInt THEN None ELSE LastComponent(N.ref)

\* ------------------------------------------------------------------------
\* Termination of the orchestrator
\* ------------------------------------------------------------------------
\* C27: under fair scheduling, once tokenize_all_text_parts has dispatched
\* its tasks it eventually terminates, whenever it has terminated the
\* outcome of every dispatched task has been consumed, and the loop takes
\* one outcome at a time and never one it has already taken.
C27_Terminates ==
    /\ (orch.pc = "waiting") ~> (orch.pc \in {"raised", "returned"})
    /\ [](orch.pc \in {"raised", "returned"} =>
             /\ orch.consumed = DOMAIN procs
             /\ \A k \in DOMAIN procs : Finished(procs[k].pc))
    /\ [][(orch.pc = "waiting" /\ orch'.consumed # orch.consumed) =>
             \E k \in DOMAIN procs :
                 /\ k \notin orch.consumed
                 /\ orch'.consumed = orch.consumed \cup {k}]_vars

C27_Witness ==
    /\ orch.pc = "raised"
    /\ orch.consumed = DOMAIN procs
    /\ ncalls = MaxCalls
    /\ \E k \in DOMAIN procs : procs[k].pc = "failed"
    /\ \E k \in DOMAIN procs : procs[k].pc = "done"

\* ------------------------------------------------------------------------
\* Several initialize_passage calls on one request context
\* ------------------------------------------------------------------------
\* C28: after any sequence of initialize_passage calls on one request
\* context, healed_passage_reference is set exactly when the most recent
\* call healed its reference, and when set it equals the reference of
\* context.passage.
C28_HealedReferenceCurrent ==
    (InitializeCalled /\ call.error = "none") =>
        /\ ("healed_passage_reference" \in DOMAIN context) <=> call.healed
        /\ ("healed_passage_reference" \in DOMAIN context) =>
              context.healed_passage_reference = context.passage.reference

\* ------------------------------------------------------------------------
\* A forced run that fails
\* ------------------------------------------------------------------------
\* the versions a URN names: the node with that URN, or, when the exact
\* lookup finds none, the versions whose URN differs from it in case only
NamedVersions(urn) ==
    IF \E n \in nodes : n.urn = urn
    THEN {n \in VersionNodes : n.urn = urn}
    ELSE {n \in VersionNodes : Lower(n.urn) = Lower(urn)}

ForcedRunFails(k) == TTP_Raise(k) /\ procs[k].force

\* C29: a forced tokenize_text_parts run that fails between its deletion
\* step and bulk creation stores no token, and the tokens the version had
\* before the call are gone: the version is left with no tokens.
C29_ForcedRunNotAtomic ==
    /\ [][\A k \in DOMAIN procs :
             /\ ForcedRunFails(k) => tokens' = tokens
             /\ (TTP_Delete(k) /\ procs[k].force) =>
                   \A V \in NamedVersions(procs[k].urn) :
                       VersionTokens(tokens', V) = <<>>]_vars
    /\ [](\A k \in DOMAIN procs :
             (procs[k].force /\ procs[k].pc = "failed") =>
                 \A V \in NamedVersions(procs[k].urn) :
                     VersionTokens(tokens, V) = <<>>)

\* a forced run has failed after its deletion step removed the tokens the
\* earlier run had stored for the version
C29_Witness ==
    \E k \in DOMAIN procs :
        /\ procs[k].force
        /\ procs[k].pc = "failed"
        /\ procs[k].deleted > 0
        /\ orch.pc = "idle"
        /\ procs[k].urn = CaseVariantUrn
        /\ NamedVersions(procs[k].urn) # {}
        /\ \A n \in nodes : ~IContains(n.urn, procs[k].urn) \/
              \E V \in NamedVersions(procs[k].urn) : IsStrictPrefix(V.path, n.path) \/ n = V
        /\ \A V \in NamedVersions(procs[k].urn) : VersionTokens(tokens, V) = <<>>

\* ------------------------------------------------------------------------
\* The corpus-SHA update command
\* ------------------------------------------------------------------------
CommandCalled == call.op = "update_corpora_shas"

\* the latest commit sha GitHub reports for a repository: that of the
\* latest release, or the head of the default branch without a release
LatestSha(remote) ==
    IF remote.release = "release" THEN remote.commit ELSE remote.branch

RepoResolved(remote) ==
    /\ remote.found
    /\ remote.release # "error"
    /\ LatestSha(remote) # "error"

====
